---- MODULE Spec2Model ----
(***************************************************************************)
(* SeaExplorer (SeaquestGame): the simulation/update engine of the game.   *)
(*                                                                         *)
(* Units.  Time is counted in frames of 1/60 s, so that the code's         *)
(* scaleFactor = deltaTime / (1000/60) is the integer number of frames     *)
(* elapsed; deltaTime in milliseconds is frames * 1000 / 60.  Oxygen,      *)
(* pixel coordinates, speeds and alpha are kept in thousandths (0.05       *)
(* oxygen per frame is 50, GRAVITY 0.02 is 20), so every product the code  *)
(* computes on the sampled inputs is an exact integer.                     *)
(*                                                                         *)
(* Geometry.  x coordinates, widths and the sinusoidal bob of the hostiles *)
(* are not state of the model: the outcome of every overlap test           *)
(* (isColliding, isCollidingCircle) and of every Math.random() draw is an  *)
(* input of the tick, given as the set `ev` of the tests that succeed.     *)
(***************************************************************************)
EXTENDS Integers, Sequences, FiniteSets, TLC

VARIABLES
    game,       \* gameInstance.current: the World State of the session
    ui,         \* React state: uiGameState, finalScore, restartTrigger
    pending,    \* setTimeout(generateEnemies(1)) callbacks not yet fired
    raf,        \* frame callback: "none", "fresh" (requested by init), "next"
    log,        \* what the last handler did: collaborator calls and events
    ticks,      \* number of gameLoop invocations so far (bounded by MaxTicks)
    drawn,      \* overlap tests / random draws that have succeeded so far
    torn,       \* the sessions torn down by the effect cleanup, oldest first:
                \* the world each effect run closed over, with its frame
                \* callback and its respawn timers, for as long as one of
                \* these callbacks still refers to the world
    touch,      \* the touch controls: the joystick's active flag and touch
                \* id, and the activeKeys ref of TouchControls
    store       \* the score store: the history collection, the user's
                \* document, and the saveGameResult calls in progress

vars == <<game, ui, pending, raf, log, ticks, drawn, torn, touch, store>>

\* the touch controls as mounted: no finger down, no direction active
TouchRest == [active |-> FALSE, touchId |-> 0, activeKeys |-> {}]

\* the score store with no saved result, no user document and no call
StoreRest == [scores |-> <<>>, user |-> <<>>, calls |-> <<>>]

\* the game's handlers touch neither the touch controls nor the store
Aside == touch = TouchRest /\ store = StoreRest

----------------------------------------------------------------------------
(* Program constants *)

MAX_OXYGEN == 300
COMBO_TIMEOUT_FRAMES == 180
GRAVITY == 20
PARTICLE_LIFESPAN == 60
MAX_PLAYER_LIVES == 10
CanvasHeight == 768
StartLives == 3
WeaponCooldownMax == 30
HarpoonLifespan == 60
ShieldFrames == 180
EnemyDamage == 30
LevelStep == 2000
MaxLevel == 5
BaseDepletionRate == 50
DepletionRateStep == 20
BonusValue == 150
BonusLifespan == 800
SkipThresholdMs == 100

\* thousandths: the fixed-point scale of oxygen, coordinates, speeds, alpha
Milli == 10 * 100

----------------------------------------------------------------------------
(* Bounds of the model *)

MaxTicks == 2        \* gameLoop invocations explored from an initial state
MaxEvents == 2       \* overlap tests / random draws that succeed in a run

----------------------------------------------------------------------------
(* Helpers *)

Min(a, b) == IF a < b THEN a ELSE b
Max(a, b) == IF a > b THEN a ELSE b

RECURSIVE SelectSeqBy(_, _)
\* Array.prototype.filter with the predicate given as the set of ids kept
SelectSeqBy(s, keep) ==
    IF s = <<>> THEN <<>>
    ELSE IF Head(s).id \in keep
         THEN <<Head(s)>> \o SelectSeqBy(Tail(s), keep)
         ELSE SelectSeqBy(Tail(s), keep)

Ids(s) == {s[i].id : i \in DOMAIN s}

\* arr.filter(x => x !== item)
Without(s, id) == SelectSeqBy(s, Ids(s) \ {id})

\* the element of s with the given id
ById(s, id) == s[CHOOSE i \in DOMAIN s : s[i].id = id]

\* s with the element of the given id replaced by r (in-place mutation)
Put(s, id, r) == [i \in DOMAIN s |-> IF s[i].id = id THEN r ELSE s[i]]

\* subsets of U with at most k elements
RECURSIVE UpTo(_, _)
UpTo(U, k) ==
    IF k = 0 THEN {{}}
    ELSE LET smaller == UpTo(U, k - 1)
         IN  smaller \cup {s \cup {e} : s \in smaller, e \in U}

Emit(g, e) == [g EXCEPT !.fx = Append(@, e)]

----------------------------------------------------------------------------
(* gameInstance.current as set up by the effect hook (lines 296-348) *)

NewDiver ==
    [ y                   |-> CanvasHeight \div 2,
      oxygenDepletionRate |-> BaseDepletionRate,
      canFire             |-> TRUE,
      weaponCooldown      |-> 0,
      comboCounter        |-> 0,
      comboTimer          |-> 0,
      isShieldActive      |-> FALSE,
      shieldTimer         |-> 0 ]

NewInstance ==
    [ animationFrameId |-> 0,          \* 0 is null
      gameStarted      |-> FALSE,
      gameOver         |-> FALSE,
      score            |-> 0,
      oxygen           |-> MAX_OXYGEN * Milli,
      level            |-> 1,
      playerLives      |-> StartLives,
      hearts           |-> <<>>,
      treasures        |-> <<>>,
      enemies          |-> <<>>,
      crabs            |-> <<>>,
      oxygenBubbles    |-> <<>>,
      harpoons         |-> <<>>,
      particles        |-> <<>>,
      oxygenBonus      |-> <<>>,
      diver            |-> NewDiver,
      keys             |-> {},         \* the keys of game.keys that are true
      lastUpdateTime   |-> 0,          \* frames ahead of the frame clock
      nextId           |-> 1,          \* object identity of the next record
      fx               |-> <<>> ]      \* calls/events of the running handler

----------------------------------------------------------------------------
(* Random draws of the generators *)

\* the draws of one generateEnemies call: kind and starting edge per hostile
Draw(k1, k2, k3) ==
    [i \in 1..MaxLevel |->
        [kind     |-> IF i % 3 = 1 THEN k1 ELSE IF i % 3 = 2 THEN k2 ELSE k3,
         fromLeft |-> (i % 2 = 1)]]

DefaultDraw == Draw("small", "large", "shark")

EnemyDraws ==
    { Draw("small", "large", "shark"),
      Draw("shark", "small", "large"),
      Draw("large", "shark", "small") }

\* 15 + Math.random() * 20 and 60 + Math.random() * 40 at Math.random() = 0
SmallBubbleAmount == 15 * Milli
LargeBubbleAmount == 60 * Milli

\* 10 + Math.floor(Math.random() * 10) at Math.random() = 0
ParticleCount == 10

\* canvas.height - 25 - Math.random() * 10 at Math.random() = 0.5
StopY == (CanvasHeight - 30) * Milli

----------------------------------------------------------------------------
(* Generation functions *)

createExplosion(g) ==
    [g EXCEPT !.particles =
        Append(@, [lifespan        |-> PARTICLE_LIFESPAN,
                   initialLifespan |-> PARTICLE_LIFESPAN,
                   count           |-> ParticleCount])]

createLevelUpEffect(g) ==
    [g EXCEPT !.particles =
        Append(@, [lifespan        |-> PARTICLE_LIFESPAN * 2,
                   initialLifespan |-> PARTICLE_LIFESPAN * 2,
                   count           |-> 40])]

generateHeart(g, y) ==
    IF g.playerLives >= MAX_PLAYER_LIVES THEN g
    ELSE [g EXCEPT
            !.hearts = Append(@, [id |-> g.nextId, y |-> y, value |-> 1,
                                  dy |-> 300, targetY |-> StopY,
                                  isFalling |-> TRUE]),
            !.nextId = @ + 1]

\* 15 + Math.floor(Math.random() * 10) at Math.random() = 0
TreasureValue == 15

\* generateTreasures(1, position)
generateTreasures(g, y) ==
    [g EXCEPT
        !.treasures = Append(@, [id |-> g.nextId, y |-> y,
                                 value |-> TreasureValue,
                                 dy |-> 500, targetY |-> StopY,
                                 isFalling |-> TRUE]),
        !.nextId = @ + 1]

\* startY = 50 + Math.random() * (canvas.height - 150), near its upper end; the
\* bob baseY + sin(offsetY) * amplitude is taken at its zero crossing
EnemyBaseY == 650 * Milli

NewEnemy(g, d, id) ==
    LET isShark     == d.kind = "shark"
        maxHealth   == IF isShark THEN 3 ELSE IF d.kind = "large" THEN 2 ELSE 1
        baseSpeed   == IF isShark THEN 1500 ELSE 1000
        direction   == IF d.fromLeft THEN 1 ELSE -1
    IN  [ id              |-> id,
          y               |-> EnemyBaseY,
          dx              |-> ((baseSpeed * (10 + 2 * (g.level - 1))) \div 10)
                              * direction,
          health          |-> maxHealth,
          maxHealth       |-> maxHealth,
          isShark         |-> isShark,
          aggressionLevel |-> IF isShark THEN Milli + 300 * (g.level - 1)
                              ELSE Milli ]

\* generateEnemies without the global cap
generateEnemiesUncapped(g, count, draw) ==
    LET g1 == [g EXCEPT
                !.enemies = @ \o [i \in 1..count |->
                                    NewEnemy(g, draw[i], g.nextId + i - 1)],
                !.nextId = @ + count]
    IN  Emit(g1, [type |-> "spawnRequest", requested |-> count,
                  level |-> g.level, before |-> Len(g.enemies),
                  after |-> Len(g1.enemies)])

\* generateEnemies adding one hostile more than requested
generateEnemiesGreedy(g, count, draw) ==
    LET g1 == IF Len(g.enemies) > 2 + g.level \div 2 THEN g
              ELSE [g EXCEPT
                      !.enemies = @ \o [i \in 1..(count + 1) |->
                                    NewEnemy(g, draw[i], g.nextId + i - 1)],
                      !.nextId = @ + count + 1]
    IN  Emit(g1, [type |-> "spawnRequest", requested |-> count,
                  level |-> g.level, before |-> Len(g.enemies),
                  after |-> Len(g1.enemies)])

generateEnemies(g, count, draw) ==
    LET g1 == IF Len(g.enemies) > 2 + g.level \div 2 THEN g
              ELSE [g EXCEPT
                      !.enemies = @ \o [i \in 1..count |->
                                    NewEnemy(g, draw[i], g.nextId + i - 1)],
                      !.nextId = @ + count]
    IN  Emit(g1, [type |-> "spawnRequest", requested |-> count,
                  level |-> g.level, before |-> Len(g.enemies),
                  after |-> Len(g1.enemies)])

generateOxygenBubbles(g, count) ==
    [g EXCEPT
        !.oxygenBubbles = @ \o [i \in 1..count |->
            [id |-> g.nextId + i - 1, oxygenAmount |-> SmallBubbleAmount,
             isLarge |-> FALSE]],
        !.nextId = @ + count]

generateLargeOxygenBubble(g) ==
    [g EXCEPT
        !.oxygenBubbles = Append(@, [id |-> g.nextId,
                                     oxygenAmount |-> LargeBubbleAmount,
                                     isLarge |-> TRUE]),
        !.nextId = @ + 1]

generateOxygenBonus(g) ==
    Emit([g EXCEPT
            !.oxygenBonus = Append(@, [id |-> g.nextId,
                                       y |-> (CanvasHeight - 50) * Milli,
                                       value |-> BonusValue,
                                       dy |-> -800,
                                       fullyVisible |-> FALSE,
                                       alpha |-> 0,
                                       lifespan |-> BonusLifespan]),
            !.nextId = @ + 1],
         [type |-> "playSound", name |-> "hello"])

generateCrab(g, fromLeft) ==
    [g EXCEPT
        !.crabs = Append(@, [id |-> g.nextId,
                             dx |-> IF fromLeft THEN 800 ELSE -800]),
        !.nextId = @ + 1]

----------------------------------------------------------------------------
(* init (lines 588-625): lead is performance.now() minus the timestamp the *)
(* frame scheduler will hand to the first gameLoop call                    *)

init(g, draw, lead) ==
    LET g0 == [g EXCEPT
                !.gameStarted = TRUE, !.gameOver = FALSE, !.score = 0,
                !.oxygen = MAX_OXYGEN * Milli, !.level = 1,
                !.lastUpdateTime = lead,
                !.playerLives = StartLives,
                !.diver = NewDiver,
                !.treasures = <<>>, !.enemies = <<>>,
                !.oxygenBubbles = <<>>, !.harpoons = <<>>, !.particles = <<>>,
                !.hearts = <<>>, !.crabs = <<>>, !.oxygenBonus = <<>>]
        g1 == generateEnemies(g0, 3, draw)
        g2 == generateOxygenBubbles(g1, 2)
        g3 == generateLargeOxygenBubble(g2)
        g4 == generateCrab(g3, draw[1].fromLeft)
        g5 == [g4 EXCEPT !.animationFrameId = 1]
    IN  Emit(Emit(g5, [type |-> "setUiGameState", value |-> "playing"]),
             [type |-> "setFinalScore", value |-> 0])

----------------------------------------------------------------------------
(* Inputs of one tick.  An event <<name, a, b>> in ev says that the named  *)
(* overlap test on the objects with ids a and b, or the named random draw, *)
(* succeeds when the code evaluates it in this tick.                       *)

Hit(ev, name, a, b) == <<name, a, b>> \in ev

\* Math.random() < p * scaleFactor can only succeed for scaleFactor > 0
Chance(ev, name, sf) == sf > 0 /\ <<name, 0, 0>> \in ev

Sound(g, name) == Emit(g, [type |-> "playSound", name |-> name])
Mark(g, name) == Emit(g, [type |-> "update", name |-> name])

\* the number of warning cues among the calls fx
Warnings(fx) ==
    Cardinality({i \in DOMAIN fx :
                    fx[i].type = "playSound" /\ fx[i].name = "warning"})

----------------------------------------------------------------------------
(* updateDiver (lines 691-720).  Position is not integrated: within a tick *)
(* the diver stays at the depth diver.y of the state (0 or mid-height).    *)

\* updateDiver counting the shield down by ticks instead of frames
updateDiverByTicks(g, sf) ==
    LET d  == g.diver
        t1 == d.comboTimer - sf
        expired == d.comboTimer > 0 /\ t1 <= 0
        s1 == d.shieldTimer - 1
        d1 == [d EXCEPT
                !.comboTimer   = IF d.comboTimer > 0
                                 THEN (IF t1 <= 0 THEN 0 ELSE t1) ELSE @,
                !.comboCounter = IF expired THEN 0 ELSE @,
                !.shieldTimer  = IF d.shieldTimer > 0 THEN s1 ELSE @,
                !.isShieldActive = IF d.shieldTimer > 0 /\ s1 <= 0
                                   THEN FALSE ELSE @]
        g1 == Mark([g EXCEPT !.diver = d1], "updateDiver")
    IN  IF expired
        THEN Emit(g1, [type |-> "comboExpired", before |-> d.comboCounter])
        ELSE g1

updateDiver(g, sf) ==
    LET d  == g.diver
        t1 == d.comboTimer - sf
        expired == d.comboTimer > 0 /\ t1 <= 0
        s1 == d.shieldTimer - sf
        d1 == [d EXCEPT
                !.comboTimer   = IF d.comboTimer > 0
                                 THEN (IF t1 <= 0 THEN 0 ELSE t1) ELSE @,
                !.comboCounter = IF expired THEN 0 ELSE @,
                !.shieldTimer  = IF d.shieldTimer > 0 THEN s1 ELSE @,
                !.isShieldActive = IF d.shieldTimer > 0 /\ s1 <= 0
                                   THEN FALSE ELSE @]
        g1 == Mark([g EXCEPT !.diver = d1], "updateDiver")
    IN  IF expired
        THEN Emit(g1, [type |-> "comboExpired", before |-> d.comboCounter])
        ELSE g1

----------------------------------------------------------------------------
(* updateWeaponSystem and fireHarpoon (lines 722-783) *)

fireHarpoon(g) ==
    LET g1 == Emit(Sound(g, "hit"), [type |-> "fire", id |-> g.nextId])
    IN  [g1 EXCEPT
            !.harpoons = Append(@, [id |-> g.nextId,
                                    lifespan |-> HarpoonLifespan]),
            !.nextId = @ + 1]

RECURSIVE AgeHarpoons(_, _, _)
\* the filter over game.harpoons: move, age, keep while alive and in the arena
AgeHarpoons(hs, sf, ev) ==
    IF hs = <<>> THEN <<>>
    ELSE LET h  == [Head(hs) EXCEPT !.lifespan = @ - sf]
             ok == h.lifespan > 0 /\ ~Hit(ev, "harpoonOut", h.id, 0)
         IN  (IF ok THEN <<h>> ELSE <<>>) \o AgeHarpoons(Tail(hs), sf, ev)

\* what the firing test of a tick found when it fired
Shot(g, d1) ==
    Emit(g, [type |-> "shot", pressed |-> "Space" \in g.keys,
             ready |-> d1.canFire, cooldown |-> d1.weaponCooldown])

\* updateWeaponSystem firing whenever fire is pressed
updateWeaponSystemAuto(g, sf, ev) ==
    LET d   == g.diver
        c1  == d.weaponCooldown - sf
        d1  == IF d.weaponCooldown > 0
               THEN [d EXCEPT !.weaponCooldown = c1,
                              !.canFire = IF c1 <= 0 THEN TRUE ELSE @]
               ELSE d
        g1  == Mark([g EXCEPT !.diver = d1], "updateWeaponSystem")
        fire == "Space" \in g.keys
        g2  == IF fire
               THEN [Shot(fireHarpoon(g1), d1) EXCEPT
                        !.diver.canFire = FALSE,
                        !.diver.weaponCooldown = WeaponCooldownMax]
               ELSE g1
    IN  [g2 EXCEPT !.harpoons = AgeHarpoons(@, sf, ev)]

updateWeaponSystem(g, sf, ev) ==
    LET d   == g.diver
        c1  == d.weaponCooldown - sf
        d1  == IF d.weaponCooldown > 0
               THEN [d EXCEPT !.weaponCooldown = c1,
                              !.canFire = IF c1 <= 0 THEN TRUE ELSE @]
               ELSE d
        g1  == Mark([g EXCEPT !.diver = d1], "updateWeaponSystem")
        fire == "Space" \in g.keys
                /\ (d1.canFire
                    \/ 2 * d1.weaponCooldown <= WeaponCooldownMax)
        g2  == IF fire
               THEN [Shot(fireHarpoon(g1), d1) EXCEPT
                        !.diver.canFire = FALSE,
                        !.diver.weaponCooldown = WeaponCooldownMax]
               ELSE g1
    IN  [g2 EXCEPT !.harpoons = AgeHarpoons(@, sf, ev)]

----------------------------------------------------------------------------
(* Falling of a treasure or heart (lines 949-961, 793-804) *)

\* Fall without the landing test
FallThrough(p, gravity, sf) ==
    IF ~p.isFalling THEN p
    ELSE [p EXCEPT !.dy = @ + gravity * sf,
                   !.y = @ + (p.dy + gravity * sf) * sf]

Fall(p, gravity, sf) ==
    IF ~p.isFalling THEN p
    ELSE LET dy1 == p.dy + gravity * sf
             y1  == p.y + dy1 * sf
         IN  IF y1 >= p.targetY
             THEN [p EXCEPT !.y = p.targetY, !.isFalling = FALSE, !.dy = 0]
             ELSE [p EXCEPT !.y = y1, !.dy = dy1]

\* ComboUp restarting the streak at 1 instead of extending it
ComboRestart(g) ==
    [g EXCEPT !.diver.comboCounter = 1,
              !.diver.comboTimer = COMBO_TIMEOUT_FRAMES]

\* ComboUp restarting the timer without counting
ComboKeeps(g) ==
    [g EXCEPT !.diver.comboTimer = COMBO_TIMEOUT_FRAMES]

\* the combo update after a scoring pickup or hit
ComboUp(g) ==
    [g EXCEPT !.diver.comboCounter = @ + 1,
              !.diver.comboTimer = COMBO_TIMEOUT_FRAMES]

----------------------------------------------------------------------------
(* updateTreasures (lines 941-984): the for-of loop runs over the array as *)
(* it was when the loop started; ids is that array's ids in order          *)

\* TreasureStep crediting the treasure but leaving it in the array
TreasureStepKeeps(g, id, sf, ev) ==
    LET t  == Fall(ById(g.treasures, id), GRAVITY, sf)
        g1 == [g EXCEPT !.treasures = Put(@, id, t)]
    IN  IF Hit(ev, "diverTreasure", id, 0)
        THEN LET g2 == [g1 EXCEPT
                          !.score = @ + t.value * (g1.diver.comboCounter + 1)]
                 g3 == createExplosion(ComboUp(g2))
             IN  Emit(g3, [type |-> "collect", kind |-> "treasure",
                           id |-> id, by |-> "diver",
                           credit |-> g3.score - g.score])
        ELSE g1

TreasureStep(g, id, sf, ev) ==
    LET t  == Fall(ById(g.treasures, id), GRAVITY, sf)
        g1 == [g EXCEPT !.treasures = Put(@, id, t)]
    IN  IF Hit(ev, "diverTreasure", id, 0)
        THEN LET g2 == [g1 EXCEPT
                          !.score = @ + t.value * (g1.diver.comboCounter + 1)]
                 g3 == createExplosion(ComboUp(g2))
                 g4 == [g3 EXCEPT !.treasures = Without(@, id)]
             IN  Emit(g4, [type |-> "collect", kind |-> "treasure",
                           id |-> id, by |-> "diver",
                           credit |-> g4.score - g.score])
        ELSE g1

RECURSIVE TreasureLoop(_, _, _, _)
TreasureLoop(g, ids, sf, ev) ==
    IF ids = <<>> THEN g
    ELSE TreasureLoop(TreasureStep(g, Head(ids), sf, ev), Tail(ids), sf, ev)

IdSeq(s) == [i \in DOMAIN s |-> s[i].id]

updateTreasures(g, sf, ev) ==
    TreasureLoop(Mark(g, "updateTreasures"), IdSeq(g.treasures), sf, ev)

----------------------------------------------------------------------------
(* updateHearts (lines 785-832) *)

\* HeartStep adding the life without the MAX_PLAYER_LIVES guard and cap
HeartStepUncapped(g, id, sf, ev) ==
    LET h  == Fall(ById(g.hearts, id), (GRAVITY * 8) \div 10, sf)
        g1 == [g EXCEPT !.hearts = Put(@, id, h)]
    IN  IF Hit(ev, "diverHeart", id, 0)
        THEN LET a  == [g1 EXCEPT
                          !.playerLives = @ + h.value,
                          !.score = @ + 50 * (g1.diver.comboCounter + 1)]
                 g2 == createExplosion(createExplosion(ComboUp(a)))
                 g3 == [g2 EXCEPT !.hearts = Without(@, id)]
             IN  Emit(g3, [type |-> "collect", kind |-> "heart",
                           id |-> id, by |-> "diver",
                           credit |-> g3.playerLives - g.playerLives,
                           value |-> h.value,
                           livesBefore |-> g.playerLives,
                           comboBefore |-> g.diver.comboCounter,
                           comboAfter  |-> g3.diver.comboCounter])
        ELSE g1

\* HeartStep that rewards every overlap, also with all the lives
HeartStepAlways(g, id, sf, ev) ==
    LET h  == Fall(ById(g.hearts, id), (GRAVITY * 8) \div 10, sf)
        g1 == [g EXCEPT !.hearts = Put(@, id, h)]
    IN  IF Hit(ev, "diverHeart", id, 0)
        THEN LET a  == [g1 EXCEPT
                          !.playerLives = Min(@ + h.value, MAX_PLAYER_LIVES),
                          !.score = @ + 50 * (g1.diver.comboCounter + 1)]
                 g2 == createExplosion(createExplosion(ComboUp(a)))
                 g3 == [g2 EXCEPT !.hearts = Without(@, id)]
             IN  Emit(g3, [type |-> "collect", kind |-> "heart",
                           id |-> id, by |-> "diver",
                           credit |-> g3.playerLives - g.playerLives,
                           value |-> h.value,
                           livesBefore |-> g.playerLives,
                           comboBefore |-> g.diver.comboCounter,
                           comboAfter  |-> g3.diver.comboCounter])
        ELSE g1

HeartStep(g, id, sf, ev) ==
    LET h  == Fall(ById(g.hearts, id), (GRAVITY * 8) \div 10, sf)
        g1 == [g EXCEPT !.hearts = Put(@, id, h)]
    IN  IF Hit(ev, "diverHeart", id, 0)
        THEN LET g2 == IF g1.playerLives < MAX_PLAYER_LIVES
                       THEN LET a == [g1 EXCEPT
                                        !.playerLives =
                                            Min(@ + h.value, MAX_PLAYER_LIVES),
                                        !.score = @ + 50 *
                                            (g1.diver.comboCounter + 1)]
                            IN  createExplosion(createExplosion(ComboUp(a)))
                       ELSE g1
                 g3 == [g2 EXCEPT !.hearts = Without(@, id)]
             IN  Emit(g3, [type |-> "collect", kind |-> "heart",
                           id |-> id, by |-> "diver",
                           credit |-> g3.playerLives - g.playerLives,
                           value |-> h.value,
                           livesBefore |-> g.playerLives,
                           comboBefore |-> g.diver.comboCounter,
                           comboAfter  |-> g3.diver.comboCounter])
        ELSE g1

RECURSIVE HeartLoop(_, _, _, _)
HeartLoop(g, ids, sf, ev) ==
    IF ids = <<>> THEN g
    ELSE HeartLoop(HeartStep(g, Head(ids), sf, ev), Tail(ids), sf, ev)

updateHearts(g, sf, ev) ==
    HeartLoop(Mark(g, "updateHearts"), IdSeq(g.hearts), sf, ev)

----------------------------------------------------------------------------
(* updateEnemies (lines 988-1093) *)

\* the first harpoon of the array, in order, whose rectangle overlaps enemy id
RECURSIVE FirstHarpoon(_, _, _)
FirstHarpoon(hs, id, ev) ==
    IF hs = <<>> THEN 0
    ELSE IF Hit(ev, "harpoonEnemy", id, Head(hs).id) THEN Head(hs).id
    ELSE FirstHarpoon(Tail(hs), id, ev)

\* what an overlap of hostile id with the player did: world g became g1
Overlap(g, g1, id, type) ==
    Emit(g1, [type |-> type, id |-> id,
              lives |-> g.playerLives,
              shield |-> g.diver.isShieldActive,
              oxygenBefore |-> g.oxygen, oxygenAfter |-> g1.oxygen,
              comboBefore |-> g.diver.comboCounter,
              comboAfter |-> g1.diver.comboCounter,
              timerBefore |-> g.diver.comboTimer,
              timerAfter |-> g1.diver.comboTimer,
              dxBefore |-> ById(g.enemies, id).dx,
              dxAfter |-> ById(g1.enemies, id).dx,
              cues |-> Warnings(g1.fx) - Warnings(g.fx)])

\* EnemyBite ignoring the shield
EnemyBiteThroughShield(g, id, ev) ==
    IF Hit(ev, "diverEnemy", id, 0)
    THEN LET e  == ById(g.enemies, id)
             g1 == [g EXCEPT !.oxygen = Max(0, @ - EnemyDamage * Milli)]
             g2 == createExplosion(g1)
             g3 == [g2 EXCEPT !.diver.comboCounter = 0,
                              !.diver.comboTimer = 0,
                              !.enemies = Put(@, id, [e EXCEPT !.dx = -e.dx])]
         IN  Overlap(g, g3, id, IF g.diver.isShieldActive
                                THEN "diverShielded" ELSE "diverHit")
    ELSE g

\* collision with the player (lines 1006-1025)
EnemyBite(g, id, ev) ==
    IF Hit(ev, "diverEnemy", id, 0)
    THEN IF ~g.diver.isShieldActive
         THEN LET e  == ById(g.enemies, id)
                  g1 == [g EXCEPT !.oxygen = Max(0, @ - EnemyDamage * Milli)]
                  g2 == createExplosion(g1)
                  g3 == [g2 EXCEPT
                           !.diver.comboCounter = 0,
                           !.diver.comboTimer = 0,
                           !.enemies = Put(@, id, [e EXCEPT !.dx = -e.dx])]
              IN  Overlap(g, g3, id, "diverHit")
         ELSE Overlap(g, g, id, "diverShielded")
    ELSE g

\* the harpoon passing through the hostile it hit
KeepHarpoon(g, hid) == g

\* game.harpoons = game.harpoons.filter(h => h !== harpoon) (line 1060)
ConsumeHarpoon(g, hid) == [g EXCEPT !.harpoons = Without(@, hid)]

\* collision with harpoons (lines 1027-1086)
EnemyShot(g, id, ev, sf) ==
    LET hid == FirstHarpoon(g.harpoons, id, ev)
    IN  IF hid = 0 THEN g
        ELSE
        LET e   == ById(g.enemies, id)
            g1  == Sound(createExplosion(g), "explosion")
            e1  == [e EXCEPT !.health = @ - 1]
            dead == e1.health <= 0
            g2  == [g1 EXCEPT
                      !.enemies = Put(@, id, e1),
                      !.score = @ + (IF dead THEN 25 ELSE 10)
                                    * (g1.diver.comboCounter + 1)]
            g3  == ComboUp(g2)
            g4  == ConsumeHarpoon(g3, hid)
            g5  == IF dead
                   THEN LET a == IF e.isShark /\ Chance(ev, "dropHeart", 1)
                                 THEN generateHeart(g4, e.y) ELSE g4
                            b == IF e.isShark /\ Chance(ev, "dropTreasure", 1)
                                 THEN generateTreasures(a, e.y) ELSE a
                            c == [b EXCEPT !.enemies = Without(@, id)]
                        IN  Emit(c, [type |-> "setTimeout"])
                   ELSE [g4 EXCEPT !.enemies =
                            Put(@, id, [e1 EXCEPT !.dx = (@ * (-8)) \div 10])]
        IN  Emit(g5, [type |-> "harpoonHit", id |-> id, harpoon |-> hid,
                      comboBefore |-> g.diver.comboCounter,
                      comboAfter  |-> g5.diver.comboCounter,
                      timerAfter  |-> g5.diver.comboTimer,
                      healthBefore |-> e.health,
                      healthAfter  |-> e1.health,
                      scoreDelta  |-> g5.score - g.score,
                      enemyKept   |-> id \in Ids(g5.enemies),
                      harpoonKept |-> hid \in Ids(g5.harpoons)])

RECURSIVE EnemyLoop(_, _, _, _)
EnemyLoop(g, ids, ev, sf) ==
    IF ids = <<>> THEN g
    ELSE EnemyLoop(EnemyShot(EnemyBite(g, Head(ids), ev), Head(ids), ev, sf),
                   Tail(ids), ev, sf)

updateEnemies(g, sf, ev, draw) ==
    LET g1 == EnemyLoop(Mark(g, "updateEnemies"), IdSeq(g.enemies), ev, sf)
    IN  IF Len(g1.enemies) < 3 + g1.level /\ Chance(ev, "spawnEnemy", sf)
        THEN generateEnemies(g1, 1, draw)
        ELSE g1

----------------------------------------------------------------------------
(* updateCrabs (lines 1095-1159) *)

\* what the crab's overlap with pickup p did: world g became g1
CrabFound(g, g1, kind, p) ==
    Emit(g1, [type |-> "crabFound", kind |-> kind, id |-> p.id,
              falling |-> p.isFalling,
              eaten |-> p.id \notin (Ids(g1.treasures) \cup Ids(g1.hearts)),
              scoreBefore |-> g.score, scoreAfter |-> g1.score,
              livesBefore |-> g.playerLives, livesAfter |-> g1.playerLives,
              oxygenBefore |-> g.oxygen, oxygenAfter |-> g1.oxygen])

RECURSIVE CrabEatTreasures(_, _, _)
CrabEatTreasures(g, ids, ev) ==
    IF ids = <<>> THEN g
    ELSE LET id == Head(ids)
             t  == ById(g.treasures, id)
         IN  IF ~t.isFalling /\ Hit(ev, "crabTreasure", id, 0)
             THEN LET g1 == createExplosion(g)
                      g2 == [g1 EXCEPT !.treasures = Without(@, id),
                                       !.score = @ + 5]
                  IN  CrabEatTreasures(
                        CrabFound(g,
                          Emit(g2, [type |-> "collect", kind |-> "treasure",
                                    id |-> id, by |-> "crab", credit |-> 5]),
                          "treasure", t),
                        Tail(ids), ev)
             ELSE IF Hit(ev, "crabTreasure", id, 0)
             THEN CrabEatTreasures(CrabFound(g, g, "treasure", t),
                                   Tail(ids), ev)
             ELSE CrabEatTreasures(g, Tail(ids), ev)

RECURSIVE CrabEatHearts(_, _, _)
CrabEatHearts(g, ids, ev) ==
    IF ids = <<>> THEN g
    ELSE LET id == Head(ids)
             h  == ById(g.hearts, id)
         IN  IF ~h.isFalling /\ Hit(ev, "crabHeart", id, 0)
             THEN LET g1 == createExplosion(g)
                      g2 == [g1 EXCEPT !.hearts = Without(@, id)]
                  IN  CrabEatHearts(
                        CrabFound(g,
                          Emit(g2, [type |-> "collect", kind |-> "heart",
                                    id |-> id, by |-> "crab", credit |-> 0]),
                          "heart", h),
                        Tail(ids), ev)
             ELSE IF Hit(ev, "crabHeart", id, 0)
             THEN CrabEatHearts(CrabFound(g, g, "heart", h), Tail(ids), ev)
             ELSE CrabEatHearts(g, Tail(ids), ev)

RECURSIVE FirstCrabHarpoon(_, _)
FirstCrabHarpoon(hs, ev) ==
    IF hs = <<>> THEN 0
    ELSE IF Hit(ev, "crabHarpoon", Head(hs).id, 0) THEN Head(hs).id
    ELSE FirstCrabHarpoon(Tail(hs), ev)

\* what a harpoon hit on crab id did: world g became g1
CrabHit(g, g1, id, hid) ==
    Emit(g1, [type |-> "crabHit", id |-> id, harpoon |-> hid,
              dxBefore |-> ById(g.crabs, id).dx,
              crabsAfter |-> g1.crabs,
              harpoonsAfter |-> Ids(g1.harpoons),
              scoreBefore |-> g.score, scoreAfter |-> g1.score])

\* CrabStep with a harpoon hit that kills the crab
CrabStepKills(g, id, ev) ==
    LET g1  == CrabEatTreasures(g, IdSeq(g.treasures), ev)
        g2  == CrabEatHearts(g1, IdSeq(g1.hearts), ev)
        hid == FirstCrabHarpoon(g2.harpoons, ev)
    IN  IF hid = 0 THEN g2
        ELSE CrabHit(g2, createExplosion(
                [g2 EXCEPT !.crabs = Without(@, id),
                           !.harpoons = Without(@, hid)]), id, hid)

CrabStep(g, id, ev) ==
    LET g1  == CrabEatTreasures(g, IdSeq(g.treasures), ev)
        g2  == CrabEatHearts(g1, IdSeq(g1.hearts), ev)
        hid == FirstCrabHarpoon(g2.harpoons, ev)
        c   == ById(g2.crabs, id)
    IN  IF hid = 0 THEN g2
        ELSE CrabHit(g2, createExplosion(
                [g2 EXCEPT !.crabs = Put(@, id, [c EXCEPT !.dx = -c.dx]),
                           !.harpoons = Without(@, hid)]), id, hid)

RECURSIVE CrabLoop(_, _, _)
CrabLoop(g, ids, ev) ==
    IF ids = <<>> THEN g
    ELSE CrabLoop(CrabStep(g, Head(ids), ev), Tail(ids), ev)

updateCrabs(g, sf, ev) ==
    LET g0 == Mark(g, "updateCrabs")
        g1 == IF Len(g0.crabs) = 0 /\ Chance(ev, "spawnCrab", sf)
              THEN generateCrab(g0, TRUE) ELSE g0
    IN  CrabLoop(g1, IdSeq(g1.crabs), ev)

----------------------------------------------------------------------------
(* endGame (lines 2016-2021) *)

\* endGame that does not publish the score
endGameSilent(g) ==
    Emit([g EXCEPT !.gameOver = TRUE],
         [type |-> "setUiGameState", value |-> "over"])

endGame(g) ==
    Emit(Emit([g EXCEPT !.gameOver = TRUE],
              [type |-> "setFinalScore", value |-> g.score]),
         [type |-> "setUiGameState", value |-> "over"])

----------------------------------------------------------------------------
(* updateOxygenBubbles (lines 1161-1263) *)

\* depth-scaled depletion (lines 1166-1188)
\* Deplete without the cue at the 20% threshold
DepleteQuiet(g, sf, ev) ==
    LET prev == g.oxygen
        used == (g.diver.oxygenDepletionRate * (CanvasHeight + g.diver.y) * sf)
                \div CanvasHeight
        g1   == [g EXCEPT !.oxygen = Max(0, prev - used)]
        g3   == IF g1.oxygen * 10 < MAX_OXYGEN * Milli
                   /\ Chance(ev, "warnRepeat", sf)
                THEN Sound(g1, "warning") ELSE g1
    IN  Emit(g3, [type |-> "deplete", lives |-> g.playerLives,
                  oxygenBefore |-> prev,
                  oxygenAfter |-> g3.oxygen,
                  repeated |-> Chance(ev, "warnRepeat", sf),
                  cues |-> Warnings(g3.fx) - Warnings(g.fx)])

Deplete(g, sf, ev) ==
    LET prev == g.oxygen
        used == (g.diver.oxygenDepletionRate * (CanvasHeight + g.diver.y) * sf)
                \div CanvasHeight
        g1   == [g EXCEPT !.oxygen = Max(0, prev - used)]
        g2   == IF g1.oxygen * 5 <= MAX_OXYGEN * Milli
                   /\ prev * 5 > MAX_OXYGEN * Milli
                THEN Sound(g1, "warning") ELSE g1
        g3   == IF g2.oxygen * 10 < MAX_OXYGEN * Milli
                   /\ Chance(ev, "warnRepeat", sf)
                THEN Sound(g2, "warning") ELSE g2
    IN  Emit(g3, [type |-> "deplete", lives |-> g.playerLives,
                  oxygenBefore |-> prev,
                  oxygenAfter |-> g3.oxygen,
                  repeated |-> Chance(ev, "warnRepeat", sf),
                  cues |-> Warnings(g3.fx) - Warnings(g.fx)])

BubbleStep(g, id, ev) ==
    LET b  == ById(g.oxygenBubbles, id)
        g1 == IF Hit(ev, "diverBubble", id, 0)
              THEN LET a == [g EXCEPT
                              !.oxygen = Min(MAX_OXYGEN * Milli,
                                             @ + b.oxygenAmount)]
                       c == Sound(createExplosion(a), "bubble")
                       d == [c EXCEPT !.oxygenBubbles = Without(@, id)]
                   IN  Emit(d, [type |-> "collect", kind |-> "bubble",
                                id |-> id, by |-> "diver",
                                credit |-> d.oxygen - g.oxygen])
              ELSE g
    IN  IF Hit(ev, "bubbleOff", id, 0)
        THEN [g1 EXCEPT !.oxygenBubbles = Without(@, id)]
        ELSE g1

RECURSIVE BubbleLoop(_, _, _)
BubbleLoop(g, ids, ev) ==
    IF ids = <<>> THEN g
    ELSE BubbleLoop(BubbleStep(g, Head(ids), ev), Tail(ids), ev)

\* OutOfOxygen respawning without the temporary shield
OutOfOxygenNoShield(g) ==
    IF g.oxygen <= 0 /\ g.gameStarted /\ ~g.gameOver
    THEN LET g1 == createExplosion([g EXCEPT !.playerLives = @ - 1])
             g2 == IF g1.playerLives > 0
                   THEN [g1 EXCEPT
                            !.diver.y = CanvasHeight \div 2,
                            !.oxygen = (MAX_OXYGEN * Milli) \div 2,
                            !.diver.comboCounter = 0,
                            !.diver.comboTimer = 0]
                   ELSE endGame(g1)
         IN  Emit(g2, [type |-> "death",
                       oxygenAtCheck |-> g.oxygen,
                       livesBefore |-> g.playerLives,
                       livesAfter  |-> g2.playerLives,
                       score       |-> g2.score,
                       oxygen      |-> g2.oxygen,
                       diverY      |-> g2.diver.y,
                       combo       |-> g2.diver.comboCounter,
                       comboTimer  |-> g2.diver.comboTimer,
                       shield      |-> g2.diver.isShieldActive,
                       shieldTimer |-> g2.diver.shieldTimer,
                       gameOver    |-> g2.gameOver])
    ELSE g

\* the out-of-oxygen check ending the game whatever the lives left
OutOfOxygenEnds(g) ==
    IF g.oxygen <= 0 /\ g.gameStarted /\ ~g.gameOver
    THEN LET g1 == createExplosion([g EXCEPT !.playerLives = @ - 1])
             g2 == endGame(g1)
         IN  Emit(g2, [type |-> "death",
                       oxygenAtCheck |-> g.oxygen,
                       livesBefore |-> g.playerLives,
                       livesAfter  |-> g2.playerLives,
                       score       |-> g2.score,
                       oxygen      |-> g2.oxygen,
                       diverY      |-> g2.diver.y,
                       combo       |-> g2.diver.comboCounter,
                       comboTimer  |-> g2.diver.comboTimer,
                       shield      |-> g2.diver.isShieldActive,
                       shieldTimer |-> g2.diver.shieldTimer,
                       gameOver    |-> g2.gameOver])
    ELSE g

\* player death when oxygen is depleted (lines 1235-1262)
OutOfOxygen(g) ==
    IF g.oxygen <= 0 /\ g.gameStarted /\ ~g.gameOver
    THEN LET g1 == createExplosion([g EXCEPT !.playerLives = @ - 1])
             g2 == IF g1.playerLives > 0
                   THEN [g1 EXCEPT
                            !.diver.y = CanvasHeight \div 2,
                            !.oxygen = (MAX_OXYGEN * Milli) \div 2,
                            !.diver.comboCounter = 0,
                            !.diver.comboTimer = 0,
                            !.diver.isShieldActive = TRUE,
                            !.diver.shieldTimer = ShieldFrames]
                   ELSE endGame(g1)
         IN  Emit(g2, [type |-> "death",
                       oxygenAtCheck |-> g.oxygen,
                       livesBefore |-> g.playerLives,
                       livesAfter  |-> g2.playerLives,
                       score       |-> g2.score,
                       oxygen      |-> g2.oxygen,
                       diverY      |-> g2.diver.y,
                       combo       |-> g2.diver.comboCounter,
                       comboTimer  |-> g2.diver.comboTimer,
                       shield      |-> g2.diver.isShieldActive,
                       shieldTimer |-> g2.diver.shieldTimer,
                       gameOver    |-> g2.gameOver])
    ELSE g

updateOxygenBubbles(g, sf, ev) ==
    LET g1 == Deplete(Mark(g, "updateOxygenBubbles"), sf, ev)
        g2 == BubbleLoop(g1, IdSeq(g1.oxygenBubbles), ev)
        g3 == IF Chance(ev, "spawnBubble", sf)
              THEN generateOxygenBubbles(g2, 1) ELSE g2
        g4 == IF Chance(ev, "spawnLarge", sf)
              THEN generateLargeOxygenBubble(g3) ELSE g3
    IN  OutOfOxygen(g4)

----------------------------------------------------------------------------
(* updateOxygenBonus (lines 835-939) *)

\* fade, rotation, movement and lifespan of one bonus (lines 846-865)
BonusMove(b, sf) ==
    LET a1 == IF ~b.fullyVisible /\ b.alpha < Milli
              THEN b.alpha + 20 * sf ELSE b.alpha
        b1 == [b EXCEPT !.alpha = Min(a1, Milli),
                        !.fullyVisible = IF ~b.fullyVisible /\ b.alpha < Milli
                                            /\ a1 >= Milli
                                         THEN TRUE ELSE @,
                        !.y = @ + b.dy * sf,
                        !.lifespan = @ - sf]
    IN  IF b1.lifespan < 100
        THEN [b1 EXCEPT !.alpha = Max(0, @ - 20 * sf)]
        ELSE b1

\* AtSurface with a strict comparison
AtSurfaceStrict(b) == b.y < 30 * Milli

\* bonus.y <= 30 (line 868)
AtSurface(b) == b.y <= 30 * Milli

BonusStep(g, id, sf, ev) ==
    LET b  == BonusMove(ById(g.oxygenBonus, id), sf)
        g1 == [g EXCEPT !.oxygenBonus = Put(@, id, b)]
        gone(x) == [x EXCEPT !.oxygenBonus = Without(@, id)]
        boom(x) == createExplosion(x)
        overlapsEnemy == g1.enemies # <<>> /\ Hit(ev, "enemyBonus", id, 0)
        overlapsDiver == Hit(ev, "diverBonus", id, 0)
    IN  IF AtSurface(b)
        THEN LET a == [g1 EXCEPT
                        !.oxygen = Min(MAX_OXYGEN * Milli,
                                       @ + (b.value * Milli * 3) \div 2),
                        !.score = @ + 250 * (g1.diver.comboCounter + 1)]
                 c == boom(boom(boom(ComboUp(
                        Emit(a, [type |-> "stopSound", name |-> "hello"])))))
             IN  Emit(gone(c), [type |-> "bonus", outcome |-> "surface",
                                id |-> id, y |-> b.y,
                                enemyOverlap |-> overlapsEnemy,
                                diverOverlap |-> overlapsDiver,
                                value |-> b.value,
                                comboBefore |-> g.diver.comboCounter,
                                comboAfter  |-> c.diver.comboCounter,
                                oxygenBefore |-> g.oxygen,
                                oxygenAfter |-> c.oxygen,
                                scoreDelta |-> c.score - g.score])
        ELSE IF overlapsEnemy
        THEN LET c == Sound(boom(boom(
                        Emit(g1, [type |-> "stopSound", name |-> "hello"]))),
                        "explosion")
             IN  Emit(gone(c), [type |-> "bonus", outcome |-> "enemy",
                                id |-> id, y |-> b.y,
                                enemyOverlap |-> overlapsEnemy,
                                diverOverlap |-> overlapsDiver,
                                value |-> b.value,
                                comboBefore |-> g.diver.comboCounter,
                                comboAfter  |-> c.diver.comboCounter,
                                oxygenBefore |-> g.oxygen,
                                oxygenAfter |-> c.oxygen,
                                scoreDelta |-> c.score - g.score])
        ELSE IF overlapsDiver
        THEN LET a == [g1 EXCEPT
                        !.oxygen = Min(MAX_OXYGEN * Milli,
                                       @ + b.value * Milli),
                        !.score = @ + 150 * (g1.diver.comboCounter + 1)]
                 c == boom(boom(ComboUp(
                        Emit(a, [type |-> "stopSound", name |-> "hello"]))))
             IN  Emit(gone(c), [type |-> "bonus", outcome |-> "diver",
                                id |-> id, y |-> b.y,
                                enemyOverlap |-> overlapsEnemy,
                                diverOverlap |-> overlapsDiver,
                                value |-> b.value,
                                comboBefore |-> g.diver.comboCounter,
                                comboAfter  |-> c.diver.comboCounter,
                                oxygenBefore |-> g.oxygen,
                                oxygenAfter |-> c.oxygen,
                                scoreDelta |-> c.score - g.score])
        ELSE IF b.lifespan > 0 /\ b.alpha > 0 THEN g1 ELSE gone(g1)

RECURSIVE BonusLoop(_, _, _, _)
BonusLoop(g, ids, sf, ev) ==
    IF ids = <<>> THEN g
    ELSE BonusLoop(BonusStep(g, Head(ids), sf, ev), Tail(ids), sf, ev)

updateOxygenBonus(g, sf, ev) ==
    LET g0 == Mark(g, "updateOxygenBonus")
        g1 == IF Len(g0.oxygenBonus) = 0 /\ Chance(ev, "spawnBonus", sf)
              THEN generateOxygenBonus(g0) ELSE g0
    IN  BonusLoop(g1, IdSeq(g1.oxygenBonus), sf, ev)

----------------------------------------------------------------------------
(* updateParticles (lines 1265-1285) *)

RECURSIVE AgeParticles(_, _)
AgeParticles(ps, sf) ==
    IF ps = <<>> THEN <<>>
    ELSE LET q == [Head(ps) EXCEPT !.lifespan = @ - sf]
         IN  (IF q.lifespan > 0 THEN <<q>> ELSE <<>>)
             \o AgeParticles(Tail(ps), sf)

\* updateParticles charging the player for the particles on screen
updateParticlesCostly(g, sf) ==
    [Mark(g, "updateParticles") EXCEPT
        !.particles = AgeParticles(@, sf),
        !.oxygen    = Max(0, @ - Milli * Len(g.particles))]

updateParticles(g, sf) ==
    [Mark(g, "updateParticles") EXCEPT !.particles = AgeParticles(@, sf)]

----------------------------------------------------------------------------
(* updateLevel (lines 1287-1305) *)

\* updateLevel with a strict threshold test
updateLevelStrict(g, draw) ==
    LET g0 == Mark(g, "updateLevel")
        g1 == IF g0.score > LevelStep * g0.level /\ g0.level < MaxLevel
              THEN LET a == [g0 EXCEPT
                              !.level = @ + 1,
                              !.diver.oxygenDepletionRate =
                                  @ + DepletionRateStep]
                       b == generateEnemies(a, a.level, draw)
                       c == generateOxygenBubbles(b, 1)
                   IN  createLevelUpEffect(c)
              ELSE g0
    IN  Emit(g1, [type |-> "levelCheck", score |-> g.score,
                  levelBefore |-> g.level, levelAfter |-> g1.level])

\* updateLevel raising the level to the one the score has earned
updateLevelCatchUp(g, draw) ==
    LET g0 == Mark(g, "updateLevel")
        earned == Min(MaxLevel, g0.score \div LevelStep + 1)
        g1 == IF g0.score >= LevelStep * g0.level /\ g0.level < MaxLevel
              THEN LET a == [g0 EXCEPT
                              !.level = earned,
                              !.diver.oxygenDepletionRate =
                                  @ + DepletionRateStep * (earned - g0.level)]
                       b == generateEnemies(a, a.level, draw)
                       c == generateOxygenBubbles(b, 1)
                   IN  createLevelUpEffect(c)
              ELSE g0
    IN  Emit(g1, [type |-> "levelCheck", score |-> g.score,
                  levelBefore |-> g.level, levelAfter |-> g1.level])

updateLevel(g, draw) ==
    LET g0 == Mark(g, "updateLevel")
        g1 == IF g0.score >= LevelStep * g0.level /\ g0.level < MaxLevel
              THEN LET a == [g0 EXCEPT
                              !.level = @ + 1,
                              !.diver.oxygenDepletionRate =
                                  @ + DepletionRateStep]
                       b == generateEnemies(a, a.level, draw)
                       c == generateOxygenBubbles(b, 1)
                   IN  createLevelUpEffect(c)
              ELSE g0
    IN  Emit(g1, [type |-> "levelCheck", score |-> g.score,
                  levelBefore |-> g.level, levelAfter |-> g1.level])

----------------------------------------------------------------------------
(* gameLoop (lines 1979-2013).  adv is the timestamp of this call counted  *)
(* from the previous frame-clock reading; deltaTime = timestamp -          *)
(* lastUpdateTime, here in frames.                                         *)

DeltaTime(g, adv) == adv - g.lastUpdateTime

TooLong(dt) == dt * 1000 > SkipThresholdMs * 60

render(g) == Emit(g, [type |-> "render"])

requestFrame(g) ==
    Emit([g EXCEPT !.animationFrameId = 1], [type |-> "requestAnimationFrame"])

\* UpdateAll with the hostiles updated before the weapon system
UpdateAllHostilesFirst(g0, dt, ev, draw) ==
    LET g1  == updateDiver(g0, dt)
        g2  == updateEnemies(g1, dt, ev, draw)
        g3  == updateWeaponSystem(g2, dt, ev)
        g4  == updateTreasures(g3, dt, ev)
        g5  == updateHearts(g4, dt, ev)
        g6  == updateCrabs(g5, dt, ev)
        g7  == updateOxygenBubbles(g6, dt, ev)
        g8  == updateOxygenBonus(g7, dt, ev)
        g9  == updateParticles(g8, dt)
    IN  updateLevel(g9, draw)

\* the update calls with the oxygen bubbles (and their out-of-oxygen check)
\* ahead of the hostiles
UpdateAllCheckFirst(g0, dt, ev, draw) ==
    LET g1  == updateDiver(g0, dt)
        g2  == updateWeaponSystem(g1, dt, ev)
        g3  == updateTreasures(g2, dt, ev)
        g4  == updateHearts(g3, dt, ev)
        g5  == updateOxygenBubbles(g4, dt, ev)
        g6  == updateEnemies(g5, dt, ev, draw)
        g7  == updateCrabs(g6, dt, ev)
        g8  == updateOxygenBonus(g7, dt, ev)
        g9  == updateParticles(g8, dt)
    IN  updateLevel(g9, draw)

\* the update calls of an active game, in order (lines 1992-2006)
UpdateAll(g0, dt, ev, draw) ==
    LET g1  == updateDiver(g0, dt)
        g2  == updateWeaponSystem(g1, dt, ev)
        g3  == updateTreasures(g2, dt, ev)
        g4  == updateHearts(g3, dt, ev)
        g5  == updateEnemies(g4, dt, ev, draw)
        g6  == updateCrabs(g5, dt, ev)
        g7  == updateOxygenBubbles(g6, dt, ev)
        g8  == updateOxygenBonus(g7, dt, ev)
        g9  == updateParticles(g8, dt)
    IN  updateLevel(g9, draw)

\* the entry of a gameLoop call: the elapsed time it computed and the
\* session state it found
Enter(g, dt) ==
    Emit([g EXCEPT !.lastUpdateTime = 0],
         [type |-> "gameLoop", deltaTime |-> dt,
          playing |-> g.gameStarted /\ ~g.gameOver])

\* gameLoop without the test for a too large elapsed time
gameLoopNoSkip(g, adv, ev, draw) ==
    LET dt == DeltaTime(g, adv)
        g0 == Enter(g, dt)
    IN  IF g0.gameStarted /\ ~g0.gameOver
        THEN requestFrame(render(UpdateAll(g0, dt, ev, draw)))
        ELSE requestFrame(render(g0))

\* gameLoop rendering only while the game is active
gameLoopIdle(g, adv, ev, draw) ==
    LET dt == DeltaTime(g, adv)
        g0 == Enter(g, dt)
    IN  IF TooLong(dt) THEN requestFrame(g0)
        ELSE IF g0.gameStarted /\ ~g0.gameOver
        THEN requestFrame(render(UpdateAll(g0, dt, ev, draw)))
        ELSE requestFrame(g0)

gameLoop(g, adv, ev, draw) ==
    LET dt == DeltaTime(g, adv)
        g0 == Enter(g, dt)
    IN  IF TooLong(dt) THEN requestFrame(g0)
        ELSE IF g0.gameStarted /\ ~g0.gameOver
        THEN requestFrame(render(UpdateAll(g0, dt, ev, draw)))
        ELSE requestFrame(render(g0))

----------------------------------------------------------------------------
(* The effect cleanup (lines 2062-2069): the frame callback r of the       *)
(* session that owns world g after cancelAnimationFrame(animationFrameId)  *)

\* a cleanup that cancels nothing
cleanupKeeps(g, r) == r

cleanup(g, r) == IF g.animationFrameId # 0 THEN "none" ELSE r

----------------------------------------------------------------------------
(* handleKeyDown / handleKeyUp (lines 2024-2055) *)

GameKeys == {"ArrowRight", "ArrowLeft", "ArrowUp", "ArrowDown", "Space"}

\* e.key values tried: the space bar, Enter, F5
KeyNames == {" ", "Enter", "F5"}

\* performance.now() in init may be later than the timestamp of the frame
\* that runs the first gameLoop call; Leads are the sampled differences
Leads == {1}

\* handleKeyDown starting a game from the game-over screen as well
handleKeyDownAnytime(g, key, draw, lead) ==
    IF (~g.gameStarted \/ g.gameOver) /\ key # "F5"
    THEN init(g, draw, lead)
    ELSE IF key \in GameKeys THEN [g EXCEPT !.keys = @ \cup {key}]
    ELSE IF key = " " THEN [g EXCEPT !.keys = @ \cup {"Space"}]
    ELSE g

handleKeyDown(g, key, draw, lead) ==
    IF ~g.gameStarted /\ ~g.gameOver /\ key # "F5"
    THEN init(g, draw, lead)
    ELSE IF key \in GameKeys THEN [g EXCEPT !.keys = @ \cup {key}]
    ELSE IF key = " " THEN [g EXCEPT !.keys = @ \cup {"Space"}]
    ELSE g

handleKeyUp(g, key) ==
    IF key \in GameKeys THEN [g EXCEPT !.keys = @ \ {key}]
    ELSE IF key = " " THEN [g EXCEPT !.keys = @ \ {"Space"}]
    ELSE g

----------------------------------------------------------------------------
(* Effects of a handler on the collaborators *)

RECURSIVE LastValue(_, _, _)
\* the value of the last call of the given setter in fx, or old
LastValue(fx, type, old) ==
    IF fx = <<>> THEN old
    ELSE LET e == fx[Len(fx)]
         IN  IF e.type = type THEN e.value
             ELSE LastValue(SubSeq(fx, 1, Len(fx) - 1), type, old)

Count(fx, type) == Cardinality({i \in DOMAIN fx : fx[i].type = type})

ApplyUi(u, fx) ==
    [u EXCEPT !.uiGameState = LastValue(fx, "setUiGameState", @),
              !.finalScore  = LastValue(fx, "setFinalScore", @)]

\* the handler's result g becomes the state; its calls become the log
Commit(g) ==
    /\ game' = [g EXCEPT !.fx = <<>>]
    /\ ui' = ApplyUi(ui, g.fx)
    /\ pending' = pending + Count(g.fx, "setTimeout")
    /\ log' = g.fx

----------------------------------------------------------------------------
(* The events that can matter in a tick from state g *)

\* bonus b (50 high) is at the height of the player (47 high)
InReach(g, b) ==
    /\ b.y <= (g.diver.y + 47) * Milli
    /\ b.y >= (g.diver.y - 50) * Milli

Universe(g) ==
    LET hs == Ids(g.harpoons)
              \cup (IF "Space" \in g.keys THEN {g.nextId} ELSE {})
        sharkDying == \E i \in DOMAIN g.enemies :
                        g.enemies[i].isShark /\ g.enemies[i].health = 1
    IN  {<<"diverEnemy", e, 0>> : e \in Ids(g.enemies)}
        \cup {<<"harpoonEnemy", e, h>> : e \in Ids(g.enemies), h \in hs}
        \cup {<<"harpoonOut", h, 0>> : h \in Ids(g.harpoons)}
        \cup {<<"crabHarpoon", h, 0>> : h \in hs}
        \cup {<<"diverTreasure", t, 0>> : t \in Ids(g.treasures)}
        \cup {<<"crabTreasure", t, 0>> : t \in Ids(g.treasures)}
        \cup {<<"diverHeart", t, 0>> : t \in Ids(g.hearts)}
        \cup {<<"crabHeart", t, 0>> : t \in Ids(g.hearts)}
        \cup {<<"diverBubble", b, 0>> : b \in Ids(g.oxygenBubbles)}
        \cup {<<"bubbleOff", b, 0>> : b \in Ids(g.oxygenBubbles)}
        \cup {<<"enemyBonus", b, 0>> : b \in Ids(g.oxygenBonus)}
        \cup {<<"diverBonus", g.oxygenBonus[i].id, 0>> :
                 i \in {j \in DOMAIN g.oxygenBonus :
                           InReach(g, g.oxygenBonus[j])}}
        \cup {<<"diverBonus", b, 0>> : b \in Ids(g.oxygenBonus)}
        \cup (IF sharkDying
              THEN {<<"dropHeart", 0, 0>>, <<"dropTreasure", 0, 0>>} ELSE {})
        \cup (IF g.oxygen * 10 < MAX_OXYGEN * Milli + EnemyDamage * Milli * 10
              THEN {<<"warnRepeat", 0, 0>>} ELSE {})
        \cup (IF g.crabs = <<>> THEN {<<"spawnCrab", 0, 0>>} ELSE {})
        \cup (IF g.oxygenBonus = <<>> THEN {<<"spawnBonus", 0, 0>>} ELSE {})
        \cup {<<"spawnEnemy", 0, 0>>, <<"spawnBubble", 0, 0>>,
              <<"spawnLarge", 0, 0>>}

\* frame-clock advances sampled: the same frame (only for the callback init
\* requested), one frame, and seven frames (116.7 ms, a suspended tab)
Advances(r) == IF r = "fresh" THEN {0, 1, 7} ELSE {1, 7}

----------------------------------------------------------------------------
(* Actions *)

Playing(g) == g.gameStarted /\ ~g.gameOver
NotStarted(g) == ~g.gameStarted /\ ~g.gameOver

\* the sessions: 0 is the one of the current effect run, i > 0 is torn[i]
Sessions == {0} \cup DOMAIN torn
WorldOf(s)  == IF s = 0 THEN game ELSE torn[s].world
RafOf(s)    == IF s = 0 THEN raf ELSE torn[s].raf
TimersOf(s) == IF s = 0 THEN pending ELSE torn[s].timers

\* the torn-down sessions of ts that a requested frame callback or a
\* respawn timer still refers to; the others are garbage
Referenced(ts) ==
    SelectSeq(ts, LAMBDA t : t.raf # "none" \/ t.timers > 0)

\* the frame callback after a handler whose calls were fx
Rearm(fx) == IF Count(fx, "requestAnimationFrame") > 0 THEN "next" ELSE "none"

\* a handler of torn session s ran: its closure holds the torn world
CommitTorn(s, g) ==
    /\ torn' = Referenced(
                 [torn EXCEPT ![s] =
                    [world  |-> [g EXCEPT !.fx = <<>>],
                     raf    |-> Rearm(g.fx),
                     timers |-> @.timers + Count(g.fx, "setTimeout")]])
    /\ ui' = ApplyUi(ui, g.fx)
    /\ log' = <<[type |-> "torn", session |-> s]>> \o g.fx
    /\ UNCHANGED <<game, pending, raf>>

\* the gameLoop call of session s ended with world g
Looping(s, g) ==
    IF s = 0
    THEN Commit(g) /\ raf' = Rearm(g.fx) /\ UNCHANGED torn
    ELSE CommitTorn(s, g)

\* the frame scheduler runs a requested gameLoop callback
Tick ==
    /\ ticks < MaxTicks
    /\ \E s \in Sessions :
         /\ RafOf(s) # "none"
         /\ \E adv \in Advances(RafOf(s)) :
              LET w    == WorldOf(s)
                  live == Playing(w) /\ ~TooLong(DeltaTime(w, adv))
              IN  \E ev \in (IF live
                             THEN UpTo(Universe(w), MaxEvents - drawn)
                             ELSE {{}}) :
                     /\ Looping(s, gameLoop(w, adv, ev, DefaultDraw))
                     /\ drawn' = drawn + Cardinality(ev)
    /\ ticks' = ticks + 1
    /\ UNCHANGED <<touch, store>>

\* a key event is explored when its handler changes the state; a handler
\* that only records the key in game.keys calls nothing and leaves the log
KeyDown ==
    /\ \E key \in KeyNames, lead \in Leads :
         LET g == handleKeyDown(game, key, DefaultDraw, lead)
         IN  /\ g # game
             /\ IF g.fx = <<>>
                THEN game' = g /\ UNCHANGED <<ui, pending, log, raf>>
                ELSE Commit(g) /\ raf' = "fresh"
    /\ UNCHANGED <<ticks, drawn, torn>>
    /\ UNCHANGED <<touch, store>>

KeyUp ==
    /\ \E key \in KeyNames :
         LET g == handleKeyUp(game, key)
         IN  g # game /\ game' = g
    /\ UNCHANGED <<ui, pending, log, raf, ticks, drawn, torn>>
    /\ UNCHANGED <<touch, store>>

\* the START GAME button of the start overlay (line 2104)
ClickStart ==
    /\ ui.uiGameState = "start"
    /\ ui' = [ui EXCEPT !.uiGameState = "playing"]
    /\ log' = <<[type |-> "click", button |-> "START GAME"]>>
    /\ UNCHANGED <<game, pending, raf, ticks, drawn, torn>>
    /\ UNCHANGED <<touch, store>>

\* PLAY AGAIN with a handleRestart that leaves uiGameState as it is
ClickPlayAgainStale ==
    /\ ui.uiGameState = "over"
    /\ ui' = [ui EXCEPT !.restartTrigger = @ + 1]
    /\ torn' = Referenced(Append(torn, [world  |-> game,
                                        raf    |-> cleanup(game, raf),
                                        timers |-> pending]))
    /\ game' = [NewInstance EXCEPT !.nextId = game.nextId]
    /\ raf' = "none"
    /\ pending' = 0
    /\ log' = <<[type |-> "click", button |-> "PLAY AGAIN"]>>
    /\ UNCHANGED <<ticks, drawn>>
    /\ UNCHANGED <<touch, store>>

\* the PLAY AGAIN button: handleRestart (lines 281-284), then the effect's
\* cleanup (lines 2062-2069) and its re-run (lines 296-348)
ClickPlayAgain ==
    /\ ui.uiGameState = "over"
    /\ ui' = [ui EXCEPT !.restartTrigger = @ + 1, !.uiGameState = "start"]
    /\ torn' = Referenced(Append(torn, [world  |-> game,
                                        raf    |-> cleanup(game, raf),
                                        timers |-> pending]))
    /\ game' = [NewInstance EXCEPT !.nextId = game.nextId]
    /\ raf' = "none"
    /\ pending' = 0
    /\ log' = <<[type |-> "click", button |-> "PLAY AGAIN"]>>
    /\ UNCHANGED <<ticks, drawn>>
    /\ UNCHANGED <<touch, store>>

\* a respawn timer whose callback looks up the world when it fires
TimeoutFireLate ==
    /\ \E s \in Sessions :
         /\ TimersOf(s) > 0
         /\ \E draw \in EnemyDraws :
              LET g == generateEnemies(game, 1, draw)
              IN  /\ log' = <<[type |-> "timeout", session |-> s]>> \o g.fx
                  /\ game' = [g EXCEPT !.fx = <<>>]
                  /\ IF s = 0
                     THEN pending' = pending - 1 /\ UNCHANGED torn
                     ELSE /\ torn' = Referenced(
                                         [torn EXCEPT ![s].timers = @ - 1])
                          /\ UNCHANGED pending
    /\ UNCHANGED <<ui, raf, ticks, drawn>>
    /\ UNCHANGED <<touch, store>>

\* a respawn timer fires: generateEnemies(1) (line 1078) of the effect run
\* that set the timer, on the world that run closed over
TimeoutFire ==
    /\ \E s \in Sessions :
         /\ TimersOf(s) > 0
         /\ \E draw \in EnemyDraws :
              LET g == generateEnemies(WorldOf(s), 1, draw)
                  w == [g EXCEPT !.fx = <<>>]
              IN  /\ log' = <<[type |-> "timeout", session |-> s]>> \o g.fx
                  /\ IF s = 0
                     THEN /\ game' = w
                          /\ pending' = pending - 1
                          /\ UNCHANGED torn
                     ELSE /\ torn' = Referenced(
                                         [torn EXCEPT ![s].world = w,
                                                      ![s].timers = @ - 1])
                          /\ UNCHANGED <<game, pending>>
    /\ UNCHANGED <<ui, raf, ticks, drawn>>
    /\ UNCHANGED <<touch, store>>

Next == Tick \/ KeyDown \/ KeyUp \/ ClickStart \/ ClickPlayAgain \/ TimeoutFire

InitConstructed ==
    /\ game = NewInstance
    /\ ui = [uiGameState |-> "start", finalScore |-> 0, restartTrigger |-> 0]
    /\ pending = 0
    /\ raf = "none"
    /\ log = <<>>
    /\ ticks = 0
    /\ drawn = 0
    /\ torn = <<>>
    /\ Aside

(* Sessions in progress.  A run from construction needs hundreds of ticks   *)
(* to lose a life or to reach a level threshold, so exploration also       *)
(* starts from states of a session under way; each is a state the update   *)
(* functions produce (ids are the object identities handed out so far).    *)

Hostile(kind, id, health) ==
    [NewEnemy(NewInstance, [kind |-> kind, fromLeft |-> TRUE], id)
        EXCEPT !.health = health]

Underway ==
    [NewInstance EXCEPT !.gameStarted = TRUE, !.animationFrameId = 1,
                        !.crabs = <<[id |-> 1, dx |-> 800]>>]

\* out of breath: one hostile and one small bubble near the diver
Brink(lives, oxygen) ==
    [Underway EXCEPT
        !.playerLives = lives, !.oxygen = oxygen, !.score = 30,
        !.diver.comboCounter = 2, !.diver.comboTimer = 100,
        !.enemies = <<Hostile("small", 2, 1)>>,
        !.oxygenBubbles = <<[id |-> 3, oxygenAmount |-> SmallBubbleAmount,
                             isLarge |-> FALSE]>>,
        !.nextId = 4]

\* a harpoon in flight towards a shark on its last health point, a heart at
\* rest on the floor and a treasure still falling or at rest
Hunt(lives, level, score, combo, timer, falling) ==
    [Underway EXCEPT
        !.playerLives = lives, !.level = level, !.score = score,
        !.diver.oxygenDepletionRate =
            BaseDepletionRate + DepletionRateStep * (level - 1),
        !.diver.comboCounter = combo, !.diver.comboTimer = timer,
        !.diver.y = 0,
        !.enemies = <<Hostile("shark", 2, 1)>>,
        !.harpoons = <<[id |-> 3, lifespan |-> HarpoonLifespan \div 2]>>,
        !.hearts = <<[id |-> 4, y |-> StopY, value |-> 1, dy |-> 0,
                      targetY |-> StopY, isFalling |-> FALSE]>>,
        !.treasures = <<[id |-> 5, y |-> IF falling THEN StopY - 600 ELSE StopY,
                         value |-> TreasureValue,
                         dy |-> IF falling THEN 500 ELSE 0,
                         targetY |-> StopY, isFalling |-> falling]>>,
        !.nextId = 6]

\* a streak of 19 harpoon hits worth 10 x (combo + 1) each, just short of
\* the first level threshold, with a bonus that has risen to the player's
\* height in (718 - 384) / 0.8 frames
Streak ==
    [Underway EXCEPT
        !.score = LevelStep - 100,
        !.diver.comboCounter = 19, !.diver.comboTimer = 100,
        !.oxygenBonus = <<[id |-> 2, y |-> (CanvasHeight \div 2) * Milli,
                           value |-> BonusValue, dy |-> -800,
                           fullyVisible |-> TRUE, alpha |-> Milli,
                           lifespan |-> BonusLifespan - 418]>>,
        !.nextId = 3]

\* the streak on the last life, with oxygen for less than one frame
LastBreath == [Streak EXCEPT !.playerLives = 1, !.oxygen = 75]

\* oxygen one frame of depletion at mid depth above 20% of MAX_OXYGEN
AboveWarning == (MAX_OXYGEN * Milli) \div 5 + 50

Samples ==
    { Brink(1, EnemyDamage * Milli), Brink(2, EnemyDamage * Milli),
      Brink(1, 75), Brink(2, 75), Brink(2, AboveWarning), Streak,
      LastBreath,
      Hunt(MAX_PLAYER_LIVES - 1, 1, LevelStep - 25, 0, 0, FALSE),
      Hunt(MAX_PLAYER_LIVES, MaxLevel, LevelStep * MaxLevel - 25, 3, 1, TRUE) }

InitUnderway ==
    /\ game \in Samples
    /\ ui = [uiGameState |-> "playing", finalScore |-> 0, restartTrigger |-> 0]
    /\ pending = 0
    /\ raf = "next"
    /\ log = <<>>
    /\ ticks = 0
    /\ drawn = 0
    /\ torn = <<>>
    /\ Aside

Init == InitConstructed \/ InitUnderway

Spec == Init /\ [][Next]_vars

----------------------------------------------------------------------------
(* Falling pickups: a session under way, on its last life, in which a      *)
(* shark has just dropped a treasure and a heart at its own height and     *)
(* nothing touches them.  The oxygen left lasts for `frames` frames at     *)
(* mid depth, so the session ends before or after the pickups land.        *)
(* Frames keep coming (requestAnimationFrame), so ticks with positive      *)
(* elapsed time are taken infinitely often.                                *)

Dropped(frames) ==
    [Underway EXCEPT
        !.playerLives = 1,
        !.oxygen = frames * ((BaseDepletionRate * 3) \div 2),
        !.treasures = <<[id |-> 2, y |-> EnemyBaseY, value |-> TreasureValue,
                         dy |-> 500, targetY |-> StopY, isFalling |-> TRUE]>>,
        !.hearts = <<[id |-> 3, y |-> EnemyBaseY, value |-> 1, dy |-> 300,
                      targetY |-> StopY, isFalling |-> TRUE]>>,
        !.nextId = 4]

\* frames of oxygen left: fewer, and more, than a fall to the floor takes
ShortBreath == 30
LongBreath == 90

InitFall ==
    /\ game \in {Dropped(ShortBreath), Dropped(LongBreath)}
    /\ ui = [uiGameState |-> "playing", finalScore |-> 0, restartTrigger |-> 0]
    /\ pending = 0
    /\ raf = "next"
    /\ log = <<>>
    /\ ticks = 0
    /\ drawn = 0
    /\ torn = <<>>
    /\ Aside

\* elapsed frames of a tick with positive elapsed time
FallAdvances == {1, 2}

\* a tick with positive elapsed time in which no overlap test succeeds
FallTick ==
    /\ \E adv \in FallAdvances : Commit(gameLoop(game, adv, {}, DefaultDraw))
    /\ UNCHANGED <<raf, ticks, drawn, torn>>
    /\ UNCHANGED <<touch, store>>

\* a frame that arrives more than 100 ms after the previous one
FallSkip ==
    /\ Commit(gameLoop(game, 7, {}, DefaultDraw))
    /\ UNCHANGED <<raf, ticks, drawn, torn>>
    /\ UNCHANGED <<touch, store>>

NextFall == FallTick \/ FallSkip

\* Weak fairness of FallTick, written out: WF_vars(FallTick) is
\* []<>~ENABLED <<FallTick>>_vars \/ []<><<FallTick>>_vars, and FallTick is
\* enabled in every Playing state (each such tick lowers oxygen or respawns).
FairFallTick == []<>(~Playing(game)) \/ []<><<FallTick>>_vars

SpecFall == InitFall /\ [][NextFall]_vars /\ FairFallTick

----------------------------------------------------------------------------
(* The oxygen bonus.  updateOxygenBonus is checked as a function of the    *)
(* bonus it finds: the heights are sampled over the whole arena, down to   *)
(* one and two frames of rise below the surface line y = 30, with and      *)
(* without a hostile or the player overlapping the bonus.  Whether a bonus *)
(* spawned at the floor lives long enough to rise that far is a separate   *)
(* question, which these runs do not answer.                               *)

\* a session under way with one hostile and a fully visible bonus `above`
\* thousandths of a pixel below the surface line
Rising(above, oxygen, combo) ==
    [Underway EXCEPT
        !.oxygen = oxygen, !.score = 30 * combo,
        !.diver.comboCounter = combo,
        !.diver.comboTimer = IF combo > 0 THEN 100 ELSE 0,
        !.enemies = <<Hostile("small", 2, 1)>>,
        !.oxygenBonus = <<[id |-> 3, y |-> 30 * Milli + above,
                           value |-> BonusValue, dy |-> -800,
                           fullyVisible |-> TRUE, alpha |-> Milli,
                           lifespan |-> BonusLifespan \div 2]>>,
        !.nextId = 4]

\* heights above the surface line: one frame of rise, a little more than
\* one frame, and far below
BonusAbove == {800, Milli, 300 * Milli}

\* oxygen at which the surface reward is capped, and is not
BonusOxygen == {20 * Milli, 200 * Milli}

BonusCombo == {0, 2}

InitBonus ==
    /\ game \in {Rising(a, o, c) :
                    a \in BonusAbove, o \in BonusOxygen, c \in BonusCombo}
    /\ ui = [uiGameState |-> "playing", finalScore |-> 0, restartTrigger |-> 0]
    /\ pending = 0
    /\ raf = "next"
    /\ log = <<>>
    /\ ticks = 0
    /\ drawn = 0
    /\ torn = <<>>
    /\ Aside

\* the overlap tests on the bonuses of g
BonusUniverse(g) ==
    {<<"enemyBonus", b, 0>> : b \in Ids(g.oxygenBonus)}
    \cup {<<"diverBonus", b, 0>> : b \in Ids(g.oxygenBonus)}

\* a tick of one or two frames in which only the bonus is touched
BonusTick ==
    /\ ticks < MaxTicks
    /\ \E adv \in FallAdvances, ev \in SUBSET BonusUniverse(game) :
         Commit(gameLoop(game, adv, ev, DefaultDraw))
    /\ ticks' = ticks + 1
    /\ UNCHANGED <<raf, drawn, torn>>
    /\ UNCHANGED <<touch, store>>

SpecBonus == InitBonus /\ [][BonusTick]_vars

----------------------------------------------------------------------------
(* Observations on the log of the last handler *)

Evs(type) == {i \in DOMAIN log : log[i].type = type}

GameOver(g) == g.gameOver

\* the fully reset world init produces
ResetWorld(g) ==
    /\ g.score = 0
    /\ g.oxygen = MAX_OXYGEN * Milli
    /\ g.level = 1
    /\ g.playerLives = StartLives
    /\ g.harpoons = <<>> /\ g.treasures = <<>>
    /\ g.hearts = <<>> /\ g.particles = <<>>

\* the ids of the pickups present in g
PickupIds(g) == Ids(g.treasures) \cup Ids(g.hearts) \cup Ids(g.oxygenBubbles)

\* oxygen was driven to 0 by a hostile hit or by depletion in the last tick
DrivenToZero(i) ==
    /\ log[i].type \in {"diverHit", "deplete"}
    /\ log[i].oxygenBefore > 0
    /\ log[i].oxygenAfter = 0

----------------------------------------------------------------------------
(* Claims *)

\* C1: after every tick, whatever hits, pickups, bonus rewards and respawns
\* it contained, 0 <= oxygen <= MAX_OXYGEN.  The first frame after init can
\* carry a timestamp earlier than the clock value init stored; gameLoop
\* applies the negative elapsed time and depletion then adds oxygen.
C1_OxygenInRange ==
    0 <= game.oxygen /\ game.oxygen <= MAX_OXYGEN * Milli

\* C2: 0 <= lives <= MAX_PLAYER_LIVES in every state; a heart pickup never
\* lifts lives above the maximum and a life is only lost while some are left.
C2_LivesInRange ==
    /\ 0 <= game.playerLives /\ game.playerLives <= MAX_PLAYER_LIVES
    /\ \A i \in Evs("death") : log[i].livesBefore >= 1

\* C2 witness: a heart was picked up in the tick that brought lives to the
\* maximum
C2_Witness ==
    /\ game.playerLives = MAX_PLAYER_LIVES
    /\ \E i \in Evs("collect") :
         log[i].kind = "heart" /\ log[i].by = "diver" /\ log[i].credit = 1

\* the session transitions the program allows
C3_Step ==
    /\ NotStarted(game) /\ ~NotStarted(game')
         => Playing(game') /\ ResetWorld(game')
    /\ Playing(game) /\ ~Playing(game')
         => GameOver(game') /\ game'.playerLives = 0
    /\ GameOver(game) /\ ~GameOver(game')
         => NotStarted(game') /\ ui'.restartTrigger = ui.restartTrigger + 1

\* what a key press does on the start screen
C3_KeysStart(keys) ==
    NotStarted(game) =>
        \A key \in keys, lead \in Leads :
            LET g == handleKeyDown(game, key, DefaultDraw, lead)
            IN  Playing(g) /\ ResetWorld(g)

C4_OutOfOxygen ==
    /\ Cardinality(Evs("death")) <= 1
    /\ \A i \in Evs("death") :
         LET d == log[i]
         IN  /\ d.oxygenAtCheck = 0
             /\ d.livesAfter = d.livesBefore - 1
             /\ game.playerLives = d.livesAfter
             /\ d.livesAfter > 0 =>
                  /\ d.diverY = CanvasHeight \div 2
                  /\ d.oxygen * 2 = MAX_OXYGEN * Milli
                  /\ d.combo = 0 /\ d.comboTimer = 0
                  /\ d.shield /\ d.shieldTimer = ShieldFrames
                  /\ game.diver.y = CanvasHeight \div 2
                  /\ game.diver.isShieldActive
                  /\ game.diver.shieldTimer = ShieldFrames
                  /\ Playing(game)
             /\ d.livesAfter = 0 => GameOver(game)

\* C4 witness: a life was lost with lives remaining
C4_Witness ==
    \E i \in Evs("death") : log[i].livesAfter > 0

\* C4 as written: whenever oxygen reaches zero in a tick, a life is lost in
\* that tick
C4_ZeroCostsLife ==
    \A i \in DOMAIN log :
        DrivenToZero(i) =>
            /\ Evs("death") # {}
            /\ game.playerLives = log[i].lives - 1

\* C5 (amended): with lives = 1, when the out-of-oxygen check finds oxygen
\* at 0 the session becomes GameOver and the recorded final score is the
\* score of the world at that moment.
C5_LastLife ==
    \A i \in Evs("death") :
        log[i].livesBefore = 1 =>
            /\ GameOver(game)
            /\ ui.uiGameState = "over"
            /\ ui.finalScore = log[i].score

\* C5 witness: the last life was lost with a positive score
C5_Witness ==
    \E i \in Evs("death") : log[i].livesBefore = 1 /\ log[i].score > 0

\* C5 as written: with lives = 1, oxygen driven to 0 ends the session
C5_ZeroEndsSession ==
    \A i \in DOMAIN log :
        DrivenToZero(i) /\ log[i].lives = 1 => GameOver(game)

\* what a step may do to the pickups
C6_Step ==
    \A id \in PickupIds(game') \ PickupIds(game) : id >= game.nextId

\* what the log of a tick says about the pickups collected in it
C6_Tick ==
    \A i \in Evs("collect") :
        /\ log[i].id \notin PickupIds(game)
        /\ \A j \in Evs("collect") : log[j].id = log[i].id => j = i

\* C6: a treasure, heart or bubble is collected at most once: a tick
\* credits it at most once and removes it from its collection, and a
\* pickup that has left its collection never comes back to be collected
\* in a later tick.
C6_CollectedOnce ==
    []C6_Tick /\ [][C6_Step]_vars

\* C6 witness: a resting treasure was taken (by the player or the crab)
C6_Witness ==
    \E i \in Evs("collect") : log[i].kind = "treasure" /\ log[i].credit > 0

\* the causes that may lower the combo counter within a session
C7_Lowered(causes) ==
    game.gameStarted /\ game'.gameStarted
    /\ game'.diver.comboCounter < game.diver.comboCounter
        => \E i \in DOMAIN log' : log'[i].type \in causes

C7_Raised ==
    game.gameStarted /\ game'.gameStarted
    /\ game'.diver.comboCounter > game.diver.comboCounter
        => game'.score > game.score

\* C7 (amended): within a session the combo counter rises only in a step
\* that raises the score, and it is lowered only in a tick in which the
\* combo timer expires, a hostile damages the player, or the player loses
\* a life to the out-of-oxygen check (the respawn clears the combo).
C7_Combo ==
    [][C7_Raised /\ C7_Lowered({"comboExpired", "diverHit", "death"})]_vars

\* C7 witness: a respawn cleared a running combo
C7_Witness ==
    /\ game.diver.comboCounter = 0
    /\ \E i \in Evs("death") : log[i].livesAfter > 0
    /\ Evs("diverHit") = {} /\ Evs("comboExpired") = {}

\* C7 as written: only timer expiry and hostile damage lower the counter
C7_OnlyExpiryOrDamage ==
    [][C7_Lowered({"comboExpired", "diverHit"})]_vars

\* C8: every harpoon hit on a hostile takes exactly 1 health, credits
\* 25 * (combo before + 1) if it kills and 10 * (combo before + 1)
\* otherwise, raises the combo counter by 1 and sets the combo timer to
\* 180, removes the harpoon (so no harpoon hits twice), and removes the
\* hostile in the same tick when its health reaches 0.
C8_HarpoonHit ==
    \A i \in Evs("harpoonHit") :
        LET e == log[i]
        IN  /\ e.healthAfter = e.healthBefore - 1
            /\ e.scoreDelta = (IF e.healthAfter <= 0 THEN 25 ELSE 10)
                              * (e.comboBefore + 1)
            /\ e.comboAfter = e.comboBefore + 1
            /\ e.timerAfter = COMBO_TIMEOUT_FRAMES
            /\ ~e.harpoonKept
            /\ e.harpoon \notin Ids(game.harpoons)
            /\ \A j \in Evs("harpoonHit") :
                 log[j].harpoon = e.harpoon => j = i
            /\ e.healthAfter <= 0 =>
                 ~e.enemyKept /\ e.id \notin Ids(game.enemies)
            /\ e.healthAfter > 0 => e.id \in Ids(game.enemies)

\* C8 witness: a hit killed a hostile while a combo was running
C8_Witness ==
    \E i \in Evs("harpoonHit") :
        log[i].healthAfter = 0 /\ log[i].comboBefore > 0

\* C9: a progression check that finds score = 2000 * L with level L < 5
\* sets the level to L + 1, and a check at level 5 never changes the level.
C9_LevelUp ==
    \A i \in Evs("levelCheck") :
        LET c == log[i]
        IN  /\ c.levelBefore < MaxLevel /\ c.score = LevelStep * c.levelBefore
                => c.levelAfter = c.levelBefore + 1 /\ game.level = c.levelAfter
            /\ c.levelBefore = MaxLevel
                => c.levelAfter = MaxLevel /\ game.level = MaxLevel

\* C9 witness: the check found the score exactly on the threshold
C9_Witness ==
    \E i \in Evs("levelCheck") :
        /\ log[i].levelBefore < MaxLevel
        /\ log[i].score = LevelStep * log[i].levelBefore

Falling(g) ==
    {g.treasures[i].id : i \in {j \in DOMAIN g.treasures :
                                    g.treasures[j].isFalling}}
    \cup {g.hearts[i].id : i \in {j \in DOMAIN g.hearts :
                                    g.hearts[j].isFalling}}

Droppables(g) == g.treasures \o g.hearts

\* no treasure or heart is below its resting height
C10_Above ==
    \A i \in DOMAIN Droppables(game) :
        Droppables(game)[i].y <= Droppables(game)[i].targetY

\* a treasure or heart at rest that stays in the world stays where it is
C10_Rest ==
    \A i \in DOMAIN Droppables(game) :
        LET p == Droppables(game)[i]
        IN  ~p.isFalling =>
              \A j \in DOMAIN Droppables(game') :
                 Droppables(game')[j].id = p.id =>
                    /\ Droppables(game')[j].y = p.y
                    /\ ~Droppables(game')[j].isFalling

\* C10: an uncollected falling treasure or heart comes to rest after
\* finitely many Playing ticks with positive elapsed time, is never below
\* targetY at the end of a tick, and once at rest keeps its Y and stays at
\* rest until it is removed.
C10_Falling ==
    /\ []C10_Above
    /\ [][C10_Rest]_vars
    /\ (Falling(game) # {}) ~> (Falling(game) = {} \/ ~Playing(game))

\* C10 witness: the dropped treasure and heart both lie at their targetY
C10_Witness ==
    /\ Playing(game)
    /\ game.treasures # <<>> /\ game.hearts # <<>>
    /\ Falling(game) = {}
    /\ \A i \in DOMAIN Droppables(game) :
         Droppables(game)[i].y = Droppables(game)[i].targetY

----------------------------------------------------------------------------
(* The loop driver *)

\* the log is that of a gameLoop call of the current session
Looped == log # <<>> /\ log[1].type = "gameLoop"

\* the gameLoop call of the log skipped its tick
Skipped == Looped /\ TooLong(log[1].deltaTime)

RECURSIVE Marks(_)
\* the names of the update functions called, in the order of the calls
Marks(l) ==
    IF l = <<>> THEN <<>>
    ELSE (IF Head(l).type = "update" THEN <<Head(l).name>> ELSE <<>>)
         \o Marks(Tail(l))

SubsystemOrder ==
    << "updateDiver", "updateWeaponSystem", "updateTreasures", "updateHearts",
       "updateEnemies", "updateCrabs", "updateOxygenBubbles",
       "updateOxygenBonus", "updateParticles", "updateLevel" >>

\* the position in the log of the call of the named update function
MarkAt(name) == CHOOSE i \in DOMAIN log :
                    log[i].type = "update" /\ log[i].name = name

\* a step that is a gameLoop call finding more than 100 ms elapsed
C11_Step ==
    ticks' = ticks + 1 /\ Skipped'
        => /\ game' = [game EXCEPT !.lastUpdateTime = game'.lastUpdateTime]
           /\ Marks(log') = <<>>
           /\ Count(log', "requestAnimationFrame") = 1
           /\ raf' = "next"
           /\ UNCHANGED <<ui, pending, torn>>

\* C11: a gameLoop call that finds more than 100 ms elapsed skips the tick:
\* no update function runs, no field of the world other than lastUpdateTime
\* changes, and the next frame is requested all the same.
C11_SkippedTick == [][C11_Step]_vars

\* C11 witness: a tick was skipped in the middle of a session
C11_Witness ==
    Skipped /\ log[1].playing /\ Playing(game) /\ game.enemies # <<>>

\* C12: every tick of an active game that is not skipped calls the update
\* functions once each in the order diver, weapon system, treasures, hearts,
\* enemies, crabs, oxygen bubbles, oxygen bonus, particles, level; so a
\* harpoon is fired before the hostiles are updated in the same tick, and
\* every harpoon hit of the tick is found between the calls of updateEnemies
\* and updateCrabs.
C12_Order ==
    Looped /\ log[1].playing /\ ~Skipped =>
        /\ Marks(log) = SubsystemOrder
        /\ \A i \in Evs("fire") :
             /\ MarkAt("updateWeaponSystem") < i
             /\ i < MarkAt("updateEnemies")
        /\ \A i \in Evs("harpoonHit") :
             /\ MarkAt("updateEnemies") < i
             /\ i < MarkAt("updateCrabs")

\* C12 witness: a harpoon hit a hostile in the tick that fired it
C12_Witness ==
    \E i \in Evs("fire"), j \in Evs("harpoonHit") :
        log[j].harpoon = log[i].id

\* C13, with the frames that do not render set apart: every gameLoop call
\* that is not skipped renders exactly once, after the last update, whether
\* the game is active or over; a skipped call renders nothing; and before
\* the game is started no frame callback is requested at all, so no frame
\* is rendered then.
C13_Render ==
    /\ Looped /\ ~Skipped =>
         /\ Count(log, "render") = 1
         /\ \A i \in Evs("render"), j \in Evs("update") : j < i
         /\ \A i \in Evs("render"), j \in Evs("requestAnimationFrame") : i < j
    /\ Skipped => Count(log, "render") = 0
    /\ NotStarted(game) => raf = "none"

\* C13 witness: a frame was rendered after the game was over
C13_Witness ==
    Looped /\ ~log[1].playing /\ GameOver(game) /\ Count(log, "render") = 1

\* C13 read literally: every frame renders once, and frames are rendered
\* before the game is started as well
C13_EveryFrameRenders ==
    /\ Looped => Count(log, "render") = 1
    /\ NotStarted(game) => raf # "none"

\* C14: after the effect cleanup no frame callback of the torn-down session
\* is left requested, and no gameLoop call runs on a torn-down world.
C14_TornLoopStopped ==
    /\ \A i \in DOMAIN torn : torn[i].raf = "none"
    /\ log # <<>> => log[1].type # "torn"

\* C14 witness: a session whose loop was running was torn down with a
\* respawn timer still set, and the loop of the session started after it
\* runs
C14_Witness ==
    /\ torn # <<>> /\ torn[1].world.animationFrameId # 0
    /\ Looped /\ log[1].playing

\* C15: a respawn timer set before the cleanup either does not fire after
\* it or adds no hostile to the torn-down world.  The cleanup clears no
\* timer and generateEnemies does not look at the session it belongs to.
C15_TornWorldUntouched ==
    log # <<>> /\ log[1].type = "timeout" /\ log[1].session # 0 =>
        \A i \in Evs("spawnRequest") : log[i].after = log[i].before

----------------------------------------------------------------------------
(* Collisions and spawning *)

\* C16: a hostile that overlaps the player with the shield down takes
\* exactly 30 oxygen, never below 0, sets combo counter and combo timer to
\* 0 and inverts its own horizontal velocity; with the shield up the
\* overlap changes none of oxygen, combo counter, combo timer and velocity.
C16_HostileOverlap ==
    /\ \A i \in Evs("diverHit") :
         LET e == log[i]
         IN  /\ ~e.shield
             /\ e.oxygenAfter = Max(0, e.oxygenBefore - EnemyDamage * Milli)
             /\ e.comboAfter = 0 /\ e.timerAfter = 0
             /\ e.dxAfter = -e.dxBefore /\ e.dxAfter # e.dxBefore
    /\ \A i \in Evs("diverShielded") :
         LET e == log[i]
         IN  /\ e.shield
             /\ e.oxygenAfter = e.oxygenBefore
             /\ e.comboAfter = e.comboBefore /\ e.timerAfter = e.timerBefore
             /\ e.dxAfter = e.dxBefore

\* C16 witness: a hit with less than 30 oxygen left cleared a running combo
C16_Witness ==
    \E i \in Evs("diverHit") :
        /\ log[i].oxygenBefore < EnemyDamage * Milli /\ log[i].oxygenAfter = 0
        /\ log[i].comboBefore > 0

\* C17, with the full-lives case set apart: a heart the player overlaps is
\* always removed from the collection; with fewer than MAX_PLAYER_LIVES
\* lives, lives rises by the heart's value capped at the maximum and the
\* combo counter rises by 1; with all the lives already, lives and the
\* combo counter stay as they are.
C17_Heart ==
    \A i \in Evs("collect") :
        log[i].kind = "heart" /\ log[i].by = "diver" =>
            LET e == log[i]
            IN  /\ e.id \notin Ids(game.hearts)
                /\ e.livesBefore < MAX_PLAYER_LIVES =>
                     /\ e.credit = Min(e.livesBefore + e.value,
                                       MAX_PLAYER_LIVES) - e.livesBefore
                     /\ e.comboAfter = e.comboBefore + 1
                /\ e.livesBefore >= MAX_PLAYER_LIVES =>
                     /\ e.credit = 0
                     /\ e.comboAfter = e.comboBefore

\* C17 witness: a heart was picked up with all the lives
C17_Witness ==
    \E i \in Evs("collect") :
        /\ log[i].kind = "heart" /\ log[i].by = "diver"
        /\ log[i].livesBefore = MAX_PLAYER_LIVES

\* C17 read literally: every heart the player overlaps raises the combo
\* counter
C17_HeartAlwaysCombo ==
    \A i \in Evs("collect") :
        log[i].kind = "heart" /\ log[i].by = "diver" =>
            /\ log[i].id \notin Ids(game.hearts)
            /\ log[i].credit = Min(log[i].livesBefore + log[i].value,
                                   MAX_PLAYER_LIVES) - log[i].livesBefore
            /\ log[i].comboAfter = log[i].comboBefore + 1

\* C20: a call of generateEnemies, from init, from the level-up, from the
\* random spawn or from a respawn timer, that finds more than
\* 2 + floor(level / 2) hostiles adds none.
C20_SpawnCap ==
    \A i \in Evs("spawnRequest") :
        log[i].before > 2 + log[i].level \div 2 => log[i].after = log[i].before

\* C20 witness: a spawn was requested with the hostiles above the cap
C20_Witness ==
    \E i \in Evs("spawnRequest") :
        /\ log[i].before > 2 + log[i].level \div 2
        /\ log[i].requested > 0

----------------------------------------------------------------------------
(* The oxygen bonus *)

\* C18: a bonus that updateOxygenBonus finds at y <= 30 after its move is
\* removed, oxygen becomes min(MAX_OXYGEN, oxygen + 1.5 * value), the score
\* rises by 250 * (combo before + 1) and the combo counter by 1, whether or
\* not a hostile or the player overlaps it in that tick; no bonus is left
\* at y <= 30 at the end of a tick.
C18_Surface ==
    /\ \A i \in DOMAIN game.oxygenBonus : ~AtSurface(game.oxygenBonus[i])
    /\ \A i \in Evs("bonus") :
         LET e == log[i]
         IN  /\ e.y <= 30 * Milli <=> e.outcome = "surface"
             /\ e.outcome = "surface" =>
                  /\ e.id \notin Ids(game.oxygenBonus)
                  /\ e.oxygenAfter =
                        Min(MAX_OXYGEN * Milli,
                            e.oxygenBefore + (e.value * Milli * 3) \div 2)
                  /\ e.scoreDelta = 250 * (e.comboBefore + 1)
                  /\ e.comboAfter = e.comboBefore + 1

\* C18 witness: a bonus reached the surface line exactly, with a hostile
\* and the player both overlapping it and a combo running
C18_Witness ==
    \E i \in Evs("bonus") :
        /\ log[i].outcome = "surface" /\ log[i].y = 30 * Milli
        /\ log[i].enemyOverlap /\ log[i].diverOverlap
        /\ log[i].comboBefore > 0
        /\ log[i].oxygenAfter < MAX_OXYGEN * Milli

\* the score an outcome of the bonus is worth before the combo multiplier
BonusBase(outcome) ==
    IF outcome = "surface" THEN 250 ELSE IF outcome = "diver" THEN 150 ELSE 0

\* C19, with the hostile outcome set apart: a bonus that reaches the
\* surface or is touched by the player awards its score times
\* (combo before + 1) and raises the combo counter by 1; a bonus destroyed
\* by an overlapping hostile awards no score and no oxygen and leaves the
\* combo counter as it is.  Each outcome removes the bonus.
C19_Outcomes ==
    \A i \in Evs("bonus") :
        LET e == log[i]
        IN  /\ e.id \notin Ids(game.oxygenBonus)
            /\ e.outcome \in {"surface", "diver"} =>
                 /\ e.scoreDelta = BonusBase(e.outcome) * (e.comboBefore + 1)
                 /\ e.scoreDelta > 0
                 /\ e.comboAfter = e.comboBefore + 1
            /\ e.outcome = "enemy" =>
                 /\ e.scoreDelta = 0
                 /\ e.comboAfter = e.comboBefore
                 /\ e.oxygenAfter = e.oxygenBefore

\* C19 witness: a hostile destroyed a bonus while a combo was running
C19_Witness ==
    \E i \in Evs("bonus") :
        log[i].outcome = "enemy" /\ log[i].comboBefore > 0

\* C19 read literally: each of the three outcomes awards score scaled by
\* (combo before + 1) and raises the combo counter
C19_AllOutcomesReward ==
    \A i \in Evs("bonus") :
        /\ log[i].scoreDelta > 0
        /\ log[i].scoreDelta % (log[i].comboBefore + 1) = 0
        /\ log[i].comboAfter = log[i].comboBefore + 1

----------------------------------------------------------------------------
(* Particles *)

\* the world without its particle collection
Gameplay(g) == [g EXCEPT !.particles = <<>>]

\* particle collections a second run can hold in place of those of g
OtherParticles(g) ==
    { <<>>,
      g.particles \o <<[lifespan        |-> 1,
                        initialLifespan |-> PARTICLE_LIFESPAN,
                        count           |-> ParticleCount]>> }

\* C21: particles do not affect gameplay.  From every reachable world, a
\* gameLoop call gives the same world apart from the particle collection
\* (score, oxygen, lives, level, session state, every other collection and
\* the calls made) whatever particle collection the world holds, for every
\* elapsed time and every choice of gameplay events of the tick.
C21_Cosmetic ==
    raf # "none" =>
        \A adv \in Advances(raf) :
            \A ev \in UpTo(Universe(game), MaxEvents - drawn) :
                \A ps \in OtherParticles(game) :
                    Gameplay(gameLoop(game, adv, ev, DefaultDraw))
                      = Gameplay(gameLoop([game EXCEPT !.particles = ps],
                                          adv, ev, DefaultDraw))

\* C21 witness: a tick of an active game that created particles on a
\* harpoon hit and left the world with particles for the next tick
C21_Witness ==
    /\ Looped /\ Playing(game) /\ raf # "none"
    /\ game.particles # <<>>
    /\ Evs("harpoonHit") # {}

----------------------------------------------------------------------------
(* Keyboard on the game-over screen *)

\* C22: pressing Enter while the game is over restarts the game: the press
\* leaves the game-over state.  handleKeyDown calls init only while the game
\* has not started; on the game-over screen Enter is not a key of game.keys
\* and the press changes nothing, the PLAY AGAIN button being the only way
\* out.
C22_EnterRestarts ==
    GameOver(game) =>
        \A lead \in Leads :
            ~GameOver(handleKeyDown(game, "Enter", DefaultDraw, lead))

----------------------------------------------------------------------------
(* Oxygen at 0 and the end of the game *)

----------------------------------------------------------------------------
(* The weapon.  A session under way in which the player only presses and   *)
(* releases fire; nothing is hit.  Here the log keeps what happened since  *)
(* the last shot: the shot itself and, after it, the first release of the  *)
(* fire key.                                                               *)

\* ticks of a weapon run: a shot and a cooldown run down to half and below
WeaponTicks == 5

\* elapsed frames of a tick: six ticks or three of them bring a cooldown of
\* 30 frames to half
WeaponAdvances == {3, 6}

InitWeapon ==
    /\ game = Underway
    /\ ui = [uiGameState |-> "playing", finalScore |-> 0, restartTrigger |-> 0]
    /\ pending = 0
    /\ raf = "next"
    /\ log = <<>>
    /\ ticks = 0
    /\ drawn = 0
    /\ torn = <<>>
    /\ Aside

\* the fire key was released since the last shot
Released(l) == \E i \in DOMAIN l : l[i].type = "keyup"

\* the gameLoop call ended with world g: a shot starts the log anew
Fired(g) ==
    /\ game' = [g EXCEPT !.fx = <<>>]
    /\ log' = IF Count(g.fx, "shot") > 0
              THEN <<[type          |-> "shots",
                      shots         |-> SelectSeq(g.fx,
                                          LAMBDA e : e.type = "shot"),
                      fires         |-> Count(g.fx, "fire"),
                      harpoons      |-> Len(g.harpoons) - Len(game.harpoons),
                      first         |-> log = <<>>,
                      released      |-> Released(log),
                      canFireAfter  |-> g.diver.canFire,
                      cooldownAfter |-> g.diver.weaponCooldown]>>
              ELSE log

WeaponTick ==
    /\ ticks < WeaponTicks
    /\ \E adv \in WeaponAdvances :
         Fired(gameLoop(game, adv, {}, DefaultDraw))
    /\ ticks' = ticks + 1
    /\ UNCHANGED <<ui, pending, raf, drawn, torn>>
    /\ UNCHANGED <<touch, store>>

WeaponKeyDown ==
    /\ "Space" \notin game.keys
    /\ \E lead \in Leads :
         game' = handleKeyDown(game, " ", DefaultDraw, lead)
    /\ UNCHANGED <<ui, pending, raf, log, ticks, drawn, torn>>
    /\ UNCHANGED <<touch, store>>

WeaponKeyUp ==
    /\ "Space" \in game.keys
    /\ game' = handleKeyUp(game, " ")
    /\ log' = IF log # <<>> /\ ~Released(log)
              THEN Append(log, [type |-> "keyup", key |-> " "])
              ELSE log
    /\ UNCHANGED <<ui, pending, raf, ticks, drawn, torn>>
    /\ UNCHANGED <<touch, store>>

NextWeapon == WeaponTick \/ WeaponKeyDown \/ WeaponKeyUp

SpecWeapon == InitWeapon /\ [][NextWeapon]_vars

\* the shots of the last tick that fired
ShotTicks == {i \in DOMAIN log : log[i].type = "shots"}

\* C24 (amended): a harpoon is fired in a tick only if fire is pressed at
\* that tick and either the cooldown has fully elapsed or the cooldown is
\* at most half of its maximum, whether or not fire was held since the
\* previous shot; a tick fires at most one harpoon, and firing puts the
\* cooldown back to its maximum.
C24_Fire ==
    \A i \in ShotTicks :
        /\ log[i].fires = 1 /\ Len(log[i].shots) = 1
        /\ log[i].harpoons <= 1
        /\ log[i].shots[1].pressed
        /\ \/ log[i].shots[1].ready
           \/ 2 * log[i].shots[1].cooldown <= WeaponCooldownMax
        /\ log[i].cooldownAfter = WeaponCooldownMax
        /\ ~log[i].canFireAfter

\* C24 witness: a shot during the cooldown, at half of it or below, after
\* the fire key had been released and pressed again
C24_Witness ==
    \E i \in ShotTicks :
        /\ ~log[i].first /\ log[i].released
        /\ ~log[i].shots[1].ready
        /\ log[i].shots[1].cooldown > 0
        /\ 2 * log[i].shots[1].cooldown <= WeaponCooldownMax

\* C24 as written: a shot during the cooldown needs fire to have been held
\* continuously since the previous shot
C24_HeldSinceShot ==
    \A i \in ShotTicks :
        /\ log[i].shots[1].pressed
        /\ \/ log[i].shots[1].ready
           \/ /\ ~log[i].released
              /\ 2 * log[i].shots[1].cooldown <= WeaponCooldownMax

----------------------------------------------------------------------------
(* Crabs *)

\* what a step may do to the crabs: only a new session drops them
C25_Step == Ids(game.crabs) \subseteq Ids(game'.crabs) \/ NotStarted(game')

\* what the log of a tick says about its crabs
C25_Log ==
    /\ \A i \in Evs("crabHit") :
         LET e == log[i]
         IN  /\ e.id \in Ids(e.crabsAfter) /\ e.id \in Ids(game.crabs)
             /\ ById(e.crabsAfter, e.id).dx = -e.dxBefore
             /\ e.harpoon \notin e.harpoonsAfter
             /\ e.harpoon \notin Ids(game.harpoons)
             /\ e.scoreAfter = e.scoreBefore
    /\ \A i \in Evs("crabFound") :
         LET e == log[i]
         IN  /\ e.eaten <=> ~e.falling
             /\ e.scoreAfter - e.scoreBefore
                  = (IF e.eaten /\ e.kind = "treasure" THEN 5 ELSE 0)
             /\ e.livesAfter = e.livesBefore
             /\ e.oxygenAfter = e.oxygenBefore
    /\ \A i \in Evs("collect") :
         log[i].by = "crab" =>
            \E j \in Evs("crabFound") :
                j > i /\ log[j].id = log[i].id /\ ~log[j].falling

\* C25: no step of a session removes a crab; a harpoon hit on a crab only
\* reverses the crab's direction and removes the harpoon; a crab removes a
\* treasure or heart it overlaps only when the pickup has finished falling,
\* and then the score rises by exactly 5 for a treasure and by nothing for a
\* heart (no life and no oxygen either).
C25_Crabs == [](C25_Log) /\ [][C25_Step]_vars

\* C25 witness: in one tick a harpoon hit the crab and the crab took a
\* treasure at rest
C25_Witness ==
    /\ Evs("crabHit") # {}
    /\ \E i \in Evs("crabFound") : log[i].kind = "treasure" /\ log[i].eaten
    /\ game.crabs # <<>>

----------------------------------------------------------------------------
(* The low-oxygen warning *)

\* event i of the log took oxygen from above 20% of MAX_OXYGEN to 20% or
\* below
Crossed(i) ==
    /\ log[i].oxygenBefore * 5 > MAX_OXYGEN * Milli
    /\ log[i].oxygenAfter * 5 <= MAX_OXYGEN * Milli

----------------------------------------------------------------------------
(* The delayed respawn of a hostile *)

\* the log is that of a respawn timer firing
TimedOut == log # <<>> /\ log[1].type = "timeout"

\* the harpoon hits of the log that killed their hostile
Kills == {i \in Evs("harpoonHit") : log[i].healthAfter <= 0}

\* C27 (amended): a hostile killed by a harpoon is removed at once and one
\* timer is set per kill.  When the timer fires it requests one hostile,
\* and generateEnemies adds exactly one new hostile unless it finds more
\* than 2 + floor(level / 2) hostiles, in which case the killed hostile is
\* not replaced.
C27_Respawn ==
    /\ \A i \in Kills : ~log[i].enemyKept /\ log[i].id \notin Ids(game.enemies)
    /\ Looped => Count(log, "setTimeout") = Cardinality(Kills)
    /\ TimedOut =>
         /\ Len(log) = 2 /\ log[2].type = "spawnRequest"
         /\ log[2].requested = 1
         /\ log[2].after = log[2].before
                + (IF log[2].before > 2 + log[2].level \div 2 THEN 0 ELSE 1)

\* C27 witness: the timer of a kill fired with the hostiles above the cap
\* and added none
C27_Witness ==
    /\ TimedOut /\ log[1].session = 0
    /\ log[2].requested = 1 /\ log[2].after = log[2].before
    /\ Playing(game)

\* C27 as written: the delayed respawn adds exactly one new hostile
C27_AlwaysReplaced ==
    TimedOut => log[2].after = log[2].before + 1

----------------------------------------------------------------------------
(* The rise of an oxygen bonus.  A session under way in which              *)
(* generateOxygenBonus has just put a bonus at the floor and nothing       *)
(* touches it: frames of one to six sixtieths of a second follow each      *)
(* other until updateOxygenBonus removes the bonus.                        *)

\* elapsed frames of a tick: the shortest, and the longest not skipped
RiseAdvances == {1, 6}

InitRise ==
    /\ game = [generateOxygenBonus([Underway EXCEPT !.nextId = 2])
                 EXCEPT !.fx = <<>>]
    /\ ui = [uiGameState |-> "playing", finalScore |-> 0, restartTrigger |-> 0]
    /\ pending = 0
    /\ raf = "next"
    /\ log = <<>>
    /\ ticks = 0
    /\ drawn = 0
    /\ torn = <<>>
    /\ Aside

\* a tick in which no overlap test succeeds, while the bonus is there
RiseTick ==
    /\ Playing(game) /\ game.oxygenBonus # <<>>
    /\ \E adv \in RiseAdvances : Commit(gameLoop(game, adv, {}, DefaultDraw))
    /\ UNCHANGED <<raf, ticks, drawn, torn>>
    /\ UNCHANGED <<touch, store>>

SpecRise == InitRise /\ [][RiseTick]_vars

\* C28: an oxygen bonus spawned at the floor (y = height - 50, rising 0.8
\* per frame, lifespan 800 frames, fading out once lifespan < 100) that
\* nothing touches reaches the surface line y <= 30 before it is removed:
\* when it is gone, it is gone with the surface reward.  The rise takes
\* (768 - 50 - 30) / 0.8 = 860 frames; the fade-out starts after 700 frames
\* and has brought alpha to 0 some 50 frames later, and the filter of
\* updateOxygenBonus then drops the bonus far below the surface line.
C28_ReachesSurface ==
    game.oxygenBonus = <<>> =>
        \E i \in Evs("bonus") : log[i].outcome = "surface"

----------------------------------------------------------------------------
(* The level *)

\* the level and the depletion rate that goes with it
C29_State ==
    /\ game.level \in 1..MaxLevel
    /\ game.diver.oxygenDepletionRate
         = BaseDepletionRate + DepletionRateStep * (game.level - 1)

\* within a session the level stays or rises by one
C29_Step ==
    NotStarted(game') \/ game'.level \in {game.level, game.level + 1}

\* C29: within a session 1 <= level <= 5; the level never decreases and
\* rises by at most 1 per tick, also when the score of the tick passes
\* several thresholds at once; the oxygen depletion rate is always
\* 0.05 + 0.02 * (level - 1).
C29_Level == [](C29_State) /\ [][C29_Step]_vars

\* C29 witness: the score of one tick went from below the threshold of its
\* level to beyond the threshold of the next level, and the level rose by 1
C29_Witness ==
    \E i \in Evs("levelCheck"), j \in Evs("bonus") :
        /\ log[i].score - log[j].scoreDelta < LevelStep * log[i].levelBefore
        /\ log[i].score >= LevelStep * (log[i].levelBefore + 1)
        /\ log[i].levelAfter = log[i].levelBefore + 1
        /\ game.level = log[i].levelAfter

----------------------------------------------------------------------------
(* The respawn shield and the combo window.  A session in which the        *)
(* out-of-oxygen check has just respawned the player, with a hostile and   *)
(* two treasures at rest within reach.  Frames of three or six sixtieths   *)
(* of a second follow each other, now and then a suspended one; here       *)
(* `ticks` counts the normalized frames of the ticks that ran since the    *)
(* respawn.                                                                *)

\* normalized frames a shield run lasts: the shield and a combo window
ShieldRun == 200

\* overlaps of a shield run
ShieldEvents == 1

ShieldAdvances == {3, 6}

Respawned ==
    [OutOfOxygen([Underway EXCEPT
                    !.oxygen = 0, !.playerLives = 2,
                    !.enemies = <<Hostile("large", 2, 3)>>,
                    !.treasures =
                        <<[id |-> 3, y |-> StopY, value |-> TreasureValue,
                           dy |-> 0, targetY |-> StopY, isFalling |-> FALSE],
                          [id |-> 4, y |-> StopY, value |-> TreasureValue,
                           dy |-> 0, targetY |-> StopY, isFalling |-> FALSE]>>,
                    !.nextId = 5])
        EXCEPT !.fx = <<>>]

InitShield ==
    /\ game = Respawned
    /\ ui = [uiGameState |-> "playing", finalScore |-> 0, restartTrigger |-> 0]
    /\ pending = 0
    /\ raf = "next"
    /\ log = <<>>
    /\ ticks = 0
    /\ drawn = 0
    /\ torn = <<>>
    /\ Aside

\* the overlaps with the player that can happen in a shield run
ShieldUniverse(g) ==
    {<<"diverEnemy", e, 0>> : e \in Ids(g.enemies)}
    \cup {<<"diverTreasure", t, 0>> : t \in Ids(g.treasures)}

ShieldTick ==
    /\ ticks < ShieldRun
    /\ \E adv \in ShieldAdvances :
         /\ \E ev \in UpTo(ShieldUniverse(game), Min(1, ShieldEvents - drawn)) :
              /\ Commit(gameLoop(game, adv, ev, DefaultDraw))
              /\ drawn' = drawn + Cardinality(ev)
         /\ ticks' = ticks + DeltaTime(game, adv)
    /\ UNCHANGED <<raf, torn>>
    /\ UNCHANGED <<touch, store>>

\* a frame that arrives more than 100 ms after the previous one
ShieldSkip ==
    /\ ticks < ShieldRun
    /\ Commit(gameLoop(game, 7, {}, DefaultDraw))
    /\ UNCHANGED <<raf, ticks, drawn, torn>>
    /\ UNCHANGED <<touch, store>>

NextShield == ShieldTick \/ ShieldSkip

SpecShield == InitShield /\ [][NextShield]_vars

\* C30: the combo counter is positive only while the combo timer is
\* positive (counter = 0 exactly when timer = 0, timer in [0, 180]); the
\* shield flag is set exactly when the shield timer is positive; and the
\* shield granted at respawn is on until 180 normalized frames of ticks
\* that ran have elapsed, and off from then on.
C30_ComboAndShield ==
    /\ game.diver.comboCounter >= 0
    /\ game.diver.comboCounter = 0 <=> game.diver.comboTimer = 0
    /\ game.diver.comboTimer \in 0..COMBO_TIMEOUT_FRAMES
    /\ game.diver.isShieldActive <=> game.diver.shieldTimer > 0
    /\ game.diver.isShieldActive <=> ticks < ShieldFrames

\* C30 witness: more than 180 frames after the respawn the shield is off,
\* its timer having run past 0, and a combo started since is still running
C30_Witness ==
    /\ ticks > ShieldFrames
    /\ ~game.diver.isShieldActive /\ game.diver.shieldTimer < 0
    /\ game.diver.comboCounter > 0 /\ game.diver.comboTimer > 0

----------------------------------------------------------------------------
(* The touch controls.  DynamicJoystick turns the touches on the pad into  *)
(* onMove(x, y) calls with x and y in [-1, 1]; handleJoystickMove of       *)
(* TouchControls turns these into onControlChange(key, active) reports.    *)
(* Touch positions are pixel offsets <<dx, dy>> from the pad's centre,     *)
(* normalized coordinates are in thousandths.                              *)

maxRadius == 50
baseSize == 100
threshold == (3 * Milli) \div 10

\* the keys of newKeys, in the order Object.keys lists them
Directions == <<"ArrowRight", "ArrowLeft", "ArrowDown", "ArrowUp">>

TouchIds == {1, 2}

\* offsets whose distance from the centre is a whole number of pixels
Offsets ==
    { <<0, 0>>, <<15, 0>>, <<16, 0>>, <<-16, 0>>, <<0, 16>>, <<0, -16>>,
      <<30, 40>>, <<-30, 40>>, <<30, -40>>, <<-30, -40>>,
      <<60, 80>>, <<-60, -80>>, <<120, 0>> }

Distance(p) == CHOOSE d \in 0..200 : d * d = p[1] * p[1] + p[2] * p[2]

\* the offset clamped to maxRadius and divided by it
Normalized(p) ==
    LET d == Distance(p)
        c == IF d > maxRadius
             THEN <<(p[1] * maxRadius) \div d, (p[2] * maxRadius) \div d>>
             ELSE p
    IN  <<(c[1] * Milli) \div maxRadius, (c[2] * Milli) \div maxRadius>>

newKeys(n) ==
    {k \in {"ArrowRight"} : n[1] > threshold}
    \cup {k \in {"ArrowLeft"} : n[1] < -threshold}
    \cup {k \in {"ArrowDown"} : n[2] > threshold}
    \cup {k \in {"ArrowUp"} : n[2] < -threshold}

\* the onControlChange calls for the directions `which`, in order
Reports(which, new) ==
    [i \in DOMAIN which |->
        [type |-> "onControlChange", key |-> which[i],
         active |-> which[i] \in new]]

\* every direction is reported, changed or not
handleJoystickMoveAlways(t, n) ==
    [touch |-> [t EXCEPT !.activeKeys = newKeys(n)],
     fx    |-> Reports(Directions, newKeys(n))]

\* each direction whose value differs from activeKeys is stored and reported
handleJoystickMove(t, n) ==
    LET new     == newKeys(n)
        changed == SelectSeq(Directions,
                             LAMBDA k : (k \in new) # (k \in t.activeKeys))
    IN  [touch |-> [t EXCEPT !.activeKeys = new],
         fx    |-> Reports(changed, new)]

\* handler h of the joystick called onMove, which ended with r
Moved(h, r) ==
    /\ touch' = r.touch
    /\ log' = <<[type |-> "touch", handler |-> h,
                 before |-> touch.activeKeys]>> \o r.fx
    /\ UNCHANGED <<game, ui, pending, raf, ticks, drawn, torn, store>>

\* a finger comes down on the pad while the joystick is idle
handleTouchStart ==
    /\ ~touch.active
    /\ \E id \in TouchIds, p \in Offsets :
         /\ Distance(p) <= baseSize
         /\ Moved("touchStart",
                  handleJoystickMove(
                      [touch EXCEPT !.active = TRUE, !.touchId = id],
                      Normalized(p)))

\* the finger that started the joystick moves
handleTouchMove ==
    /\ touch.active
    /\ \E id \in TouchIds, p \in Offsets :
         /\ id = touch.touchId
         /\ Moved("touchMove", handleJoystickMove(touch, Normalized(p)))

\* the finger that started the joystick is lifted, or its touch is cancelled
handleTouchEnd ==
    /\ touch.active
    /\ \E id \in TouchIds :
         /\ id = touch.touchId
         /\ Moved("touchEnd",
                  handleJoystickMove(
                      [touch EXCEPT !.active = FALSE, !.touchId = 0],
                      <<0, 0>>))

InitJoystick ==
    /\ game = NewInstance
    /\ ui = [uiGameState |-> "start", finalScore |-> 0, restartTrigger |-> 0]
    /\ pending = 0
    /\ raf = "none"
    /\ log = <<>>
    /\ ticks = 0
    /\ drawn = 0
    /\ torn = <<>>
    /\ Aside

NextJoystick == handleTouchStart \/ handleTouchMove \/ handleTouchEnd

SpecJoystick == InitJoystick /\ [][NextJoystick]_vars

\* the directions last reported active once the first i entries of the
\* log are out (entry 1 is the handler, with the directions active before)
Told(i) ==
    (log[1].before \ {log[j].key : j \in {m \in 2..i : ~log[m].active}})
    \cup {log[j].key : j \in {m \in 2..i : log[m].active}}

Opposed(keys) ==
    \/ {"ArrowLeft", "ArrowRight"} \subseteq keys
    \/ {"ArrowUp", "ArrowDown"} \subseteq keys

\* a direction is reported only when its value changes
OnlyChanges ==
    \A i \in 2..Len(log) : log[i].active # (log[i].key \in Told(i - 1))

\* the release reports inactive every direction that was active
ReleaseClears ==
    log[1].handler = "touchEnd" =>
        /\ touch.activeKeys = {}
        /\ \A k \in log[1].before :
              \E i \in 2..Len(log) : log[i].key = k /\ ~log[i].active

\* C31 (as amended): for any sequence of joystick touches, a direction is
\* reported only when its active state changes, the reports of a handler
\* leave no two opposite directions active once the handler has ended, and
\* the release (move to 0,0) reports inactive every direction that was
\* active, so that none remains active.
C31_Joystick ==
    log # <<>> =>
        /\ OnlyChanges
        /\ Told(Len(log)) = touch.activeKeys
        /\ ~Opposed(touch.activeKeys)
        /\ ReleaseClears

\* the joystick is released while two directions are active
C31_Witness ==
    /\ log # <<>> /\ log[1].handler = "touchEnd"
    /\ Cardinality(log[1].before) = 2
    /\ Len(log) = 3

\* C31 (as stated): in addition, at no point of the sequence of reports
\* are two opposite directions reported active together.
C31_NeverOpposed ==
    log # <<>> =>
        /\ OnlyChanges
        /\ \A i \in 1..Len(log) : ~Opposed(Told(i))
        /\ ReleaseClears

----------------------------------------------------------------------------
\* the world of the current session and the worlds of the torn-down ones
Worlds == {game} \cup {torn[s].world : s \in DOMAIN torn}

\* C32: in every reachable state of a started session gameOver is true
\* exactly when no life is left, and gameOver is never true while
\* gameStarted is false.
C32_OverIffNoLives ==
    \A w \in Worlds :
        /\ w.gameStarted => (w.gameOver <=> w.playerLives = 0)
        /\ w.gameOver => w.gameStarted

\* the out-of-oxygen check took the last life and ended the session
C32_Witness ==
    /\ game.gameStarted /\ game.gameOver /\ game.playerLives = 0
    /\ \E i \in Evs("death") : log[i].livesBefore = 1 /\ log[i].gameOver

----------------------------------------------------------------------------
\* what a session that is over is expected to keep
Frozen(g) ==
    <<g.score, g.oxygen, g.playerLives, g.level, g.hearts, g.treasures,
      g.enemies, g.crabs, g.oxygenBubbles, g.harpoons, g.particles,
      g.oxygenBonus>>

\* C33: from the end of the tick in which the session becomes GameOver
\* until a restart, score, oxygen, lives, level and every entity collection
\* stay as they are, whatever tick, key event or respawn timer occurs.
C33_OverIsFrozen ==
    [][GameOver(game) /\ GameOver(game') => Frozen(game') = Frozen(game)]_vars

----------------------------------------------------------------------------
\* the score the bonus outcomes logged after entry i of the log added
\* (there is at most one bonus, hence at most one outcome)
LaterGain(i) ==
    LET js == {j \in Evs("bonus") : j > i}
    IN  IF js = {} THEN 0 ELSE log[CHOOSE j \in js : TRUE].scoreDelta

\* C34 (as amended): the recorded final score is the score at the
\* out-of-oxygen check that ended the session.  The oxygen bonus runs after
\* that check in the same tick: what it adds goes to the World State score
\* only, which is then higher than the final score shown.
C34_ScoreAtCheck ==
    /\ GameOver(game) => ui.finalScore <= game.score
    /\ \A i \in Evs("death") :
         log[i].gameOver =>
            /\ ui.finalScore = log[i].score
            /\ Cardinality({j \in Evs("bonus") : j > i}) <= 1
            /\ game.score = log[i].score + LaterGain(i)

\* the player reached the bonus in the tick that took the last life
C34_Witness ==
    /\ GameOver(game)
    /\ \E i \in Evs("death") :
         /\ log[i].gameOver
         /\ \E j \in Evs("bonus") :
              j > i /\ log[j].outcome = "diver" /\ log[j].scoreDelta > 0

\* C34 (as stated): whenever the session is GameOver the recorded final
\* score equals the World State score.
C34_FinalIsWorldScore == GameOver(game) => ui.finalScore = game.score

----------------------------------------------------------------------------
----------------------------------------------------------------------------
\* C36: every tick whose update functions run uses an elapsed time between
\* 0 and 100 ms, for any timestamp the frame scheduler passes, including a
\* first-frame timestamp earlier than the clock value init stored.
C36_ElapsedInRange ==
    Looped /\ Marks(log) # <<>> =>
        0 <= log[1].deltaTime /\ ~TooLong(log[1].deltaTime)

----------------------------------------------------------------------------
\* a step in which a respawn timer of a torn-down session fired
OldTimerFires ==
    /\ log' # log
    /\ log' # <<>> /\ log'[1].type = "timeout" /\ log'[1].session # 0

\* C37: a respawn timer set in one session never adds a hostile to the
\* world of a later session created by restart, whether it fires before or
\* after the new session has started: its callback works on the world of
\* the effect run that set it.
C37_OldTimerSparesNewWorld ==
    [][OldTimerFires => game' = game]_vars

\* the timer of the previous session fired after the new session had
\* started, and added its hostile to the old world
C37_Witness ==
    /\ TimedOut /\ log[1].session # 0
    /\ log[2].after = log[2].before + 1
    /\ Playing(game) /\ Len(game.enemies) = 3

----------------------------------------------------------------------------
\* C38 (as amended): uiGameState is "over" exactly while the session is
\* over and "start" only while it is not started; a session that is Playing
\* always shows "playing", but the START GAME button sets "playing" without
\* starting the session, which stays not started until a key is pressed.
C38_UiFollows ==
    /\ ui.uiGameState = "over" <=> GameOver(game)
    /\ ui.uiGameState = "start" => NotStarted(game)
    /\ Playing(game) => ui.uiGameState = "playing"
    /\ ui.uiGameState = "playing" => Playing(game) \/ NotStarted(game)

\* START GAME was clicked: the overlay is gone, the session has not started
C38_Witness ==
    /\ ui.uiGameState = "playing" /\ NotStarted(game)
    /\ log # <<>> /\ log[1].type = "click" /\ log[1].button = "START GAME"

\* C38 (as stated): "playing" only while the session is Playing, "over"
\* only while it is over, "start" only while it is not started.
C38_UiAgrees ==
    /\ ui.uiGameState = "playing" => Playing(game)
    /\ ui.uiGameState = "over" => GameOver(game)
    /\ ui.uiGameState = "start" => NotStarted(game)

----------------------------------------------------------------------------
\* the most hostiles a world at this level can hold
HostileBound(level) == 2 + level \div 2 + level

\* C39: in every reachable state the number of hostiles is at most
\* 2 + floor(level / 2) + level, hence never more than 9, whichever of the
\* initial, level-up, random and delayed spawns added them.
C39_HostileBound ==
    /\ \A w \in Worlds :
         /\ Len(w.enemies) <= HostileBound(w.level)
         /\ Len(w.enemies) <= 9
    /\ \A i \in Evs("spawnRequest") :
         log[i].after <= HostileBound(log[i].level)

\* a level-up spawn filled the world up to the bound of the new level
C39_Witness ==
    /\ Playing(game) /\ Looped /\ game.level > 1
    /\ Len(game.enemies) = HostileBound(game.level)
    /\ \E i \in Evs("spawnRequest") :
         /\ log[i].requested = game.level
         /\ log[i].after = log[i].before + game.level

----------------------------------------------------------------------------
(* saveGameResult: the score store of one user.  Each call is an async     *)
(* function that awaits three requests in turn: addDoc to the history,      *)
(* getDoc of the user's document, setDoc of the user's document.  Calls     *)
(* interleave at these awaits; each request is atomic in the store.         *)
(* store.user is <<>> while the document does not exist.                    *)

MaxSaves == 2
SaveScores == {1, 2, 3}

\* the call c of store.calls moves on to pc
Await(c, pc) == [store EXCEPT !.calls[c].pc = pc]

\* saveGameResult(userId, userName, result) is called
saveGameResult ==
    /\ Len(store.calls) < MaxSaves
    /\ \E score \in SaveScores :
         store' = [store EXCEPT
                      !.calls = Append(@, [pc |-> "addDoc", score |-> score,
                                           snap |-> <<>>])]
    /\ UNCHANGED <<game, ui, pending, raf, log, ticks, drawn, torn, touch>>

\* 1. add to history
addDoc ==
    /\ \E c \in DOMAIN store.calls :
         /\ store.calls[c].pc = "addDoc"
         /\ store' = [Await(c, "getDoc") EXCEPT
                         !.scores = Append(@, store.calls[c].score)]
    /\ UNCHANGED <<game, ui, pending, raf, log, ticks, drawn, torn, touch>>

\* 2. read the user's document
getDoc ==
    /\ \E c \in DOMAIN store.calls :
         /\ store.calls[c].pc = "getDoc"
         /\ store' = [Await(c, "setDoc") EXCEPT !.calls[c].snap = store.user]
    /\ UNCHANGED <<game, ui, pending, raf, log, ticks, drawn, torn, touch>>

\* the document after setDoc(userRef, {highScore: score}, {merge: true})
Merged(user, score) ==
    IF user = <<>> THEN <<[highScore |-> score]>>
    ELSE <<[user[1] EXCEPT !.highScore = score]>>

\* 3. write the user's document, as decided from the snapshot read in 2
setDoc ==
    /\ \E c \in DOMAIN store.calls :
         LET call == store.calls[c]
         IN  /\ call.pc = "setDoc"
             /\ store' =
                  [Await(c, "done") EXCEPT
                     !.user =
                        IF call.snap # <<>>
                        THEN IF call.score > call.snap[1].highScore
                             THEN Merged(@, call.score)
                             ELSE @
                        ELSE <<[highScore |-> call.score]>>]
    /\ UNCHANGED <<game, ui, pending, raf, log, ticks, drawn, torn, touch>>

InitSave ==
    /\ game = NewInstance
    /\ ui = [uiGameState |-> "start", finalScore |-> 0, restartTrigger |-> 0]
    /\ pending = 0
    /\ raf = "none"
    /\ log = <<>>
    /\ ticks = 0
    /\ drawn = 0
    /\ torn = <<>>
    /\ Aside

NextSave == saveGameResult \/ addDoc \/ getDoc \/ setDoc

SpecSave == InitSave /\ [][NextSave]_vars

\* every call made has completed
Saved ==
    /\ store.calls # <<>>
    /\ \A c \in DOMAIN store.calls : store.calls[c].pc = "done"

\* the highest score in the history
BestSaved ==
    CHOOSE m \in SaveScores :
        /\ \E i \in DOMAIN store.scores : store.scores[i] = m
        /\ \A i \in DOMAIN store.scores : store.scores[i] <= m

\* C40: once every saveGameResult call for the user has completed, also
\* calls whose read and write overlap, the stored highScore is the highest
\* score among the saved results.
C40_HighScoreIsBest ==
    Saved => store.user # <<>> /\ store.user[1].highScore = BestSaved

====
